---- MODULE Spec2Model ----
(***************************************************************************)
(* Model of robots_server: the cached request coordinator (service.rs),    *)
(* the fetcher's outcome classification (fetcher.rs), the TTL cache        *)
(* (cache.rs) and the RFC 9309 matcher (robots_data.rs).                   *)
(*                                                                         *)
(* Strings are sequences of one-character strings.  Time is counted in    *)
(* hours.                                                                  *)
(***************************************************************************)
EXTENDS Integers, Sequences, FiniteSets, TLC

\* ------------------------------------------------------------------------
\* Bounds of the model
\* ------------------------------------------------------------------------
NumCallers == 2
MaxFetches == 2
MaxTicks == 2
MaxChain == 11
\* the size cap of a body, 550 * 1024 bytes in fetcher.rs:11, scaled down
MAX_ROBOTS_TXT_SIZE == 3
\* the most chunks a body arrives in
MaxChunks == 3
\* the most rules in the first group of a policy
\* the longest pattern, its anchoring $ aside, and the longest path matched
MaxPattern == 3
MaxPath == 3
\* the number of calls made on the cache directly
MaxOps == 3
MaxRules == 2

\* ------------------------------------------------------------------------
\* Program constants
\* ------------------------------------------------------------------------
\* cache.rs:45  time_to_live(Duration::from_hours(24))
TTL == 24
\* fetcher.rs:37-40  Client::builder() sets a timeout and no redirect policy,
\* so the HTTP client's default policy (follow up to 10 redirects) applies.
RedirectLimit == 10

\* ------------------------------------------------------------------------
\* String helpers (str::to_lowercase, starts_with, ends_with, contains, find,
\* split) over sequences of characters
\* ------------------------------------------------------------------------
Lower(ch) ==
    CASE ch = "A" -> "a"
      [] ch = "B" -> "b"
      [] ch = "C" -> "c"
      [] OTHER -> ch

to_lowercase(s) == [i \in DOMAIN s |-> Lower(s[i])]

starts_with(s, p) ==
    /\ Len(p) <= Len(s)
    /\ SubSeq(s, 1, Len(p)) = p

ends_with(s, p) ==
    /\ Len(p) <= Len(s)
    /\ SubSeq(s, Len(s) - Len(p) + 1, Len(s)) = p

\* the 0-based offsets at which needle occurs in hay
Occurrences(hay, needle) ==
    {i \in 0..(Len(hay) - Len(needle)) : SubSeq(hay, i + 1, i + Len(needle)) = needle}

contains(hay, needle) == Occurrences(hay, needle) # {}

\* str::find: offset of the first occurrence, -1 for None
find(hay, needle) ==
    IF Occurrences(hay, needle) = {} THEN -1
    ELSE CHOOSE i \in Occurrences(hay, needle) :
             \A j \in Occurrences(hay, needle) : i <= j

RECURSIVE SplitFrom(_, _, _, _)
SplitFrom(s, sep, i, cur) ==
    IF i > Len(s) THEN <<cur>>
    ELSE IF s[i] = sep THEN <<cur>> \o SplitFrom(s, sep, i + 1, <<>>)
    ELSE SplitFrom(s, sep, i + 1, Append(cur, s[i]))

\* pattern.split('*').collect()
split(s, sep) == SplitFrom(s, sep, 1, <<>>)

\* ------------------------------------------------------------------------
\* robots_data.rs: the matcher
\* ------------------------------------------------------------------------
RuleAllow == 1
RuleDisallow == 2

\* a loop that leaves the scan position at the start of the path after the
\* first part
RECURSIVE WildcardLoopFromStart(_, _, _, _, _)
WildcardLoopFromStart(path, parts, i, pos, exact) ==
    IF i > Len(parts) THEN TRUE
    ELSE IF parts[i] = <<>> THEN WildcardLoopFromStart(path, parts, i + 1, pos, exact)
    ELSE IF i = 1 THEN
        IF ~starts_with(path, parts[i]) THEN FALSE
        ELSE WildcardLoopFromStart(path, parts, i + 1, 0, exact)
    ELSE IF i = Len(parts) /\ exact THEN
        IF ~ends_with(path, parts[i]) THEN FALSE
        ELSE WildcardLoopFromStart(path, parts, i + 1, pos, exact)
    ELSE
        LET rest == SubSeq(path, pos + 1, Len(path))
            found == find(rest, parts[i])
        IN  IF found = -1 THEN FALSE
            ELSE WildcardLoopFromStart(path, parts, i + 1, pos + found + Len(parts[i]),
                                       exact)

\* the loop of wildcard_match over parts[i..], pos being the scan position
RECURSIVE WildcardLoop(_, _, _, _, _)
WildcardLoop(path, parts, i, pos, exact) ==
    IF i > Len(parts) THEN TRUE
    ELSE IF parts[i] = <<>> THEN WildcardLoop(path, parts, i + 1, pos, exact)
    ELSE IF i = 1 THEN
        IF ~starts_with(path, parts[i]) THEN FALSE
        ELSE WildcardLoop(path, parts, i + 1, Len(parts[i]), exact)
    ELSE IF i = Len(parts) /\ exact THEN
        IF ~ends_with(path, parts[i]) THEN FALSE
        ELSE WildcardLoop(path, parts, i + 1, pos, exact)
    ELSE
        LET rest == SubSeq(path, pos + 1, Len(path))
            found == find(rest, parts[i])
        IN  IF found = -1 THEN FALSE
            ELSE WildcardLoop(path, parts, i + 1, pos + found + Len(parts[i]), exact)

wildcard_match(path, pattern, exact) ==
    LET parts == split(pattern, "*")
    IN  IF Len(parts) = 0 THEN TRUE
        ELSE IF Len(parts) = 1 THEN
            (IF exact THEN path = pattern ELSE starts_with(path, pattern))
        ELSE WildcardLoop(path, parts, 1, 0, exact)

\* a match that takes a pattern without * as a prefix, anchored or not
match_pattern_prefix_only(path, pattern, exact) ==
    IF \E i \in DOMAIN pattern : pattern[i] = "*"
    THEN wildcard_match(path, pattern, exact)
    ELSE starts_with(path, pattern)

match_pattern(path, pattern, exact) ==
    IF \E i \in DOMAIN pattern : pattern[i] = "*"
    THEN wildcard_match(path, pattern, exact)
    ELSE IF exact THEN path = pattern
    ELSE starts_with(path, pattern)

path_matches_rfc9309(path, pattern) ==
    IF Len(pattern) > 0 /\ pattern[Len(pattern)] = "$"
    THEN match_pattern(path, SubSeq(pattern, 1, Len(pattern) - 1), TRUE)
    ELSE match_pattern(path, pattern, FALSE)

\* a selection that consults the * groups next to the matching ones
GroupsToCheckWithWildcard(groups, user_agent) ==
    LET user_agent_lower == to_lowercase(user_agent)
    IN  {g \in DOMAIN groups :
            \E u \in DOMAIN groups[g].user_agents :
                LET ua_lower == to_lowercase(groups[g].user_agents[u])
                IN  \/ user_agent_lower = ua_lower
                    \/ contains(user_agent_lower, ua_lower)
                    \/ groups[g].user_agents[u] = <<"*">>}

\* a selection that compares the token as written
GroupsToCheckCaseSensitive(groups, user_agent) ==
    LET user_agent_lower == to_lowercase(user_agent)
        matching_groups ==
            {g \in DOMAIN groups :
                \E u \in DOMAIN groups[g].user_agents :
                    LET ua == groups[g].user_agents[u]
                    IN  user_agent_lower = ua \/ contains(user_agent_lower, ua)}
    IN  IF matching_groups = {}
        THEN {g \in DOMAIN groups :
                \E u \in DOMAIN groups[g].user_agents : groups[g].user_agents[u] = <<"*">>}
        ELSE matching_groups

\* the indices of the groups is_allowed consults
GroupsToCheck(groups, user_agent) ==
    LET user_agent_lower == to_lowercase(user_agent)
        matching_groups ==
            {g \in DOMAIN groups :
                \E u \in DOMAIN groups[g].user_agents :
                    LET ua_lower == to_lowercase(groups[g].user_agents[u])
                    IN  user_agent_lower = ua_lower \/ contains(user_agent_lower, ua_lower)}
    IN  IF matching_groups = {}
        THEN {g \in DOMAIN groups :
                \E u \in DOMAIN groups[g].user_agents : groups[g].user_agents[u] = <<"*">>}
        ELSE matching_groups

\* a length that leaves the anchoring $ out
PatternLenWithoutAnchor(pattern) ==
    IF Len(pattern) > 0 /\ pattern[Len(pattern)] = "$" THEN Len(pattern) - 1 ELSE Len(pattern)

\* r.path_pattern.len()
PatternLen(pattern) == Len(pattern)

\* a pool that keeps the rules of every rule_type, a rule that is not an Allow
\* counting as a Disallow
RulesAllowUnknownDisallows(groups, sel, path) ==
    LET all_rules == UNION {{<<g, r>> : r \in DOMAIN groups[g].rules} : g \in sel}
        rule(gr) == groups[gr[1]].rules[gr[2]]
        matching_rules ==
            {gr \in all_rules : path_matches_rfc9309(path, rule(gr).path_pattern)}
        max_len ==
            CHOOSE n \in {PatternLen(rule(gr).path_pattern) : gr \in matching_rules} :
                \A gr \in matching_rules : PatternLen(rule(gr).path_pattern) <= n
        longest_rules ==
            {gr \in matching_rules : PatternLen(rule(gr).path_pattern) = max_len}
        has_allow == \E gr \in longest_rules : rule(gr).rule_type = RuleAllow
        has_disallow == \E gr \in longest_rules : rule(gr).rule_type # RuleAllow
    IN  IF matching_rules = {} THEN TRUE
        ELSE IF has_allow THEN TRUE
        ELSE ~has_disallow

\* a decision in which the Disallow among the longest rules wins
RulesAllowDisallowOnTie(groups, sel, path) ==
    LET all_rules ==
            {gr \in UNION {{<<g, r>> : r \in DOMAIN groups[g].rules} : g \in sel} :
                groups[gr[1]].rules[gr[2]].rule_type \in {RuleAllow, RuleDisallow}}
        rule(gr) == groups[gr[1]].rules[gr[2]]
        matching_rules ==
            {gr \in all_rules : path_matches_rfc9309(path, rule(gr).path_pattern)}
        max_len ==
            CHOOSE n \in {PatternLen(rule(gr).path_pattern) : gr \in matching_rules} :
                \A gr \in matching_rules : PatternLen(rule(gr).path_pattern) <= n
        longest_rules ==
            {gr \in matching_rules : PatternLen(rule(gr).path_pattern) = max_len}
        has_disallow == \E gr \in longest_rules : rule(gr).rule_type = RuleDisallow
    IN  IF matching_rules = {} THEN TRUE
        ELSE ~has_disallow

\* a decision by the first rule, in the order of the policy, that matches
RulesAllowFirstMatch(groups, sel, path) ==
    LET all_rules ==
            {gr \in UNION {{<<g, r>> : r \in DOMAIN groups[g].rules} : g \in sel} :
                groups[gr[1]].rules[gr[2]].rule_type \in {RuleAllow, RuleDisallow}}
        rule(gr) == groups[gr[1]].rules[gr[2]]
        matching_rules ==
            {gr \in all_rules : path_matches_rfc9309(path, rule(gr).path_pattern)}
        before(a, b) == a[1] < b[1] \/ (a[1] = b[1] /\ a[2] <= b[2])
        first == CHOOSE gr \in matching_rules : \A o \in matching_rules : before(gr, o)
    IN  IF matching_rules = {} THEN TRUE
        ELSE rule(first).rule_type = RuleAllow

\* is_allowed from "Combine all rules from matching groups" on; sel is the
\* non-empty set of the indices of the groups to check
RulesAllow(groups, sel, path) ==
    LET \* <<g, r>> pairs of the rules pushed to all_rules
        all_rules ==
            {gr \in UNION {{<<g, r>> : r \in DOMAIN groups[g].rules} : g \in sel} :
                groups[gr[1]].rules[gr[2]].rule_type \in {RuleAllow, RuleDisallow}}
        rule(gr) == groups[gr[1]].rules[gr[2]]
        matching_rules ==
            {gr \in all_rules : path_matches_rfc9309(path, rule(gr).path_pattern)}
        max_len ==
            CHOOSE n \in {PatternLen(rule(gr).path_pattern) : gr \in matching_rules} :
                \A gr \in matching_rules : PatternLen(rule(gr).path_pattern) <= n
        longest_rules ==
            {gr \in matching_rules : PatternLen(rule(gr).path_pattern) = max_len}
        has_allow == \E gr \in longest_rules : rule(gr).rule_type = RuleAllow
        has_disallow == \E gr \in longest_rules : rule(gr).rule_type = RuleDisallow
    IN  IF matching_rules = {} THEN TRUE
        ELSE IF has_allow THEN TRUE
        ELSE ~has_disallow

\* is_allowed answering false when no group is to be checked
is_allowed_deny_without_groups(groups, user_agent, path) ==
    LET sel == GroupsToCheck(groups, user_agent)
    IN  IF sel = {} THEN FALSE ELSE RulesAllow(groups, sel, path)

is_allowed(groups, user_agent, path) ==
    LET sel == GroupsToCheck(groups, user_agent)
    IN  IF sel = {} THEN TRUE ELSE RulesAllow(groups, sel, path)

\* ------------------------------------------------------------------------
\* URLs.  A target URL is the request string seen through Url::parse: whether
\* it parses, and its components as written (port -1: none written).
\* ------------------------------------------------------------------------
Url(parses, scheme, host, port, path, hasQuery, query) ==
    [parses |-> parses, scheme |-> scheme, host |-> host, port |-> port,
     path |-> path, hasQuery |-> hasQuery, query |-> query]

\* the empty string as a URL value (RobotsData::default())
EmptyUrl == Url(FALSE, "", "", -1, <<>>, FALSE, <<>>)

DefaultPort(scheme) ==
    CASE scheme = "http" -> 80
      [] scheme = "https" -> 443
      [] scheme = "ftp" -> 21
      [] OTHER -> -1

\* Url::port(): None (-1) when no port was written or it is the scheme's default
UrlPort(u) == IF u.port = DefaultPort(u.scheme) THEN -1 ELSE u.port

\* a robots.txt URL "scheme://host[:port]/robots.txt" (port -1: no port part)
RobotsUrl(scheme, host, port) ==
    Url(TRUE, scheme, host, port, <<"/", "r">>, FALSE, <<>>)

\* a canonicalization without the check of the scheme
extract_robots_url_any_scheme(target_url) ==
    IF ~target_url.parses THEN [ok |-> FALSE, url |-> EmptyUrl]
    ELSE IF target_url.host = "" THEN [ok |-> FALSE, url |-> EmptyUrl]
    ELSE LET p == UrlPort(target_url)
             scheme == target_url.scheme
         IN  IF p # -1 /\ ((scheme = "http" /\ p # 80) \/ (scheme = "https" /\ p # 443))
             THEN [ok |-> TRUE, url |-> RobotsUrl(scheme, target_url.host, p)]
             ELSE [ok |-> TRUE, url |-> RobotsUrl(scheme, target_url.host, -1)]

\* a canonicalization that keeps every port the target writes
extract_robots_url_keep_written_port(target_url) ==
    IF ~target_url.parses THEN [ok |-> FALSE, url |-> EmptyUrl]
    ELSE IF target_url.scheme # "http" /\ target_url.scheme # "https"
    THEN [ok |-> FALSE, url |-> EmptyUrl]
    ELSE IF target_url.host = "" THEN [ok |-> FALSE, url |-> EmptyUrl]
    ELSE [ok |-> TRUE,
          url |-> RobotsUrl(target_url.scheme, target_url.host, target_url.port)]

\* a canonicalization that elides 80 and 443 whatever the scheme
extract_robots_url_elide_any_default(target_url) ==
    IF ~target_url.parses THEN [ok |-> FALSE, url |-> EmptyUrl]
    ELSE IF target_url.scheme # "http" /\ target_url.scheme # "https"
    THEN [ok |-> FALSE, url |-> EmptyUrl]
    ELSE IF target_url.host = "" THEN [ok |-> FALSE, url |-> EmptyUrl]
    ELSE LET p == target_url.port
             scheme == target_url.scheme
         IN  IF p # -1 /\ p # 80 /\ p # 443
             THEN [ok |-> TRUE, url |-> RobotsUrl(scheme, target_url.host, p)]
             ELSE [ok |-> TRUE, url |-> RobotsUrl(scheme, target_url.host, -1)]

\* a canonicalization that puts robots.txt under the path of the target
extract_robots_url_under_path(target_url) ==
    IF ~target_url.parses THEN [ok |-> FALSE, url |-> EmptyUrl]
    ELSE IF target_url.scheme # "http" /\ target_url.scheme # "https"
    THEN [ok |-> FALSE, url |-> EmptyUrl]
    ELSE IF target_url.host = "" THEN [ok |-> FALSE, url |-> EmptyUrl]
    ELSE LET p == UrlPort(target_url)
             scheme == target_url.scheme
             path == target_url.path \o <<"/", "r">>
         IN  IF p # -1 /\ ((scheme = "http" /\ p # 80) \/ (scheme = "https" /\ p # 443))
             THEN [ok |-> TRUE,
                   url |-> Url(TRUE, scheme, target_url.host, p, path, FALSE, <<>>)]
             ELSE [ok |-> TRUE,
                   url |-> Url(TRUE, scheme, target_url.host, -1, path, FALSE, <<>>)]

extract_robots_url(target_url) ==
    IF ~target_url.parses THEN [ok |-> FALSE, url |-> EmptyUrl]
    ELSE IF target_url.scheme # "http" /\ target_url.scheme # "https"
    THEN [ok |-> FALSE, url |-> EmptyUrl]
    ELSE IF target_url.host = "" THEN [ok |-> FALSE, url |-> EmptyUrl]
    ELSE LET p == UrlPort(target_url)
             scheme == target_url.scheme
         IN  IF p # -1 /\ ((scheme = "http" /\ p # 80) \/ (scheme = "https" /\ p # 443))
             THEN [ok |-> TRUE, url |-> RobotsUrl(scheme, target_url.host, p)]
             ELSE [ok |-> TRUE, url |-> RobotsUrl(scheme, target_url.host, -1)]

\* a path extraction that leaves the query out
extract_path_from_url_without_query(url) ==
    IF url.path = <<>> THEN <<"/">> ELSE url.path

extract_path_from_url(url) ==
    LET path == IF url.path = <<>> THEN <<"/">> ELSE url.path
    IN  IF url.hasQuery THEN path \o <<"?">> \o url.query ELSE path

\* URLs as text: a sequence <<scheme, "://", host>>, then ":" and the port if
\* one is written, then the characters of the path and, after "?", of the
\* query.  Url::parse lowercases the scheme and the host
AsciiLower(word) ==
    CASE word = "HTTP" -> "http"
      [] word = "A" -> "a"
      [] OTHER -> word

PortNumber(word) ==
    CASE word = "80" -> 80
      [] word = "443" -> 443
      [] word = "8080" -> 8080
      [] OTHER -> -1

PortText(port) ==
    CASE port = 80 -> "80"
      [] port = 443 -> "443"
      [] port = 8080 -> "8080"
      [] OTHER -> ""

\* Url::parse(target_url): fails on a text without "scheme://" and on an empty
\* host under http, https or ftp; an empty path of such a URL reads "/"; what
\* follows "#" is the fragment, which path() and query() leave out
ParseUrl(text) ==
    IF Len(text) < 3 \/ text[2] # "://" THEN Url(FALSE, "", "", -1, text, FALSE, <<>>)
    ELSE LET scheme == AsciiLower(text[1])
             host == AsciiLower(text[3])
             hasPort == Len(text) >= 5 /\ text[4] = ":"
             port == IF hasPort THEN PortNumber(text[5]) ELSE -1
             tail == SubSeq(text, IF hasPort THEN 6 ELSE 4, Len(text))
             h == find(tail, <<"#">>)
             rest == IF h = -1 THEN tail ELSE SubSeq(tail, 1, h)
             q == find(rest, <<"?">>)
             path == IF q = -1 THEN rest ELSE SubSeq(rest, 1, q)
             query == IF q = -1 THEN <<>> ELSE SubSeq(rest, q + 2, Len(rest))
         IN  IF host = "" /\ scheme \in {"http", "https", "ftp"}
             THEN Url(FALSE, scheme, "", -1, <<>>, FALSE, <<>>)
             ELSE Url(TRUE, scheme, host, port,
                      IF path = <<>> THEN <<"/">> ELSE path, q # -1, query)

\* format!("{scheme}://{host}:{p}/robots.txt") and format!("{scheme}://{host}/robots.txt")
RobotsUrlText(u) ==
    <<u.scheme, "://", u.host>>
        \o (IF u.port = -1 THEN <<>> ELSE <<":", PortText(u.port)>>)
        \o u.path

\* extract_robots_url from text to text
robots_url_for(text) ==
    LET r == extract_robots_url(ParseUrl(text))
    IN  IF r.ok THEN [ok |-> TRUE, text |-> RobotsUrlText(r.url)]
        ELSE [ok |-> FALSE, text |-> <<>>]

\* the request URLs of the model: two targets of one origin, one of another
\* origin and one that does not parse
Targets ==
    { Url(TRUE, "http", "a", -1, <<"/">>, FALSE, <<>>),
      Url(TRUE, "http", "a", 80, <<"/", "x">>, TRUE, <<"q">>),
      Url(TRUE, "http", "a", 8080, <<"/", "x">>, FALSE, <<>>),
      Url(FALSE, "", "", -1, <<"n">>, FALSE, <<>>) }

\* request URLs that are refused: "https://" (Url::parse fails on the empty
\* host), "ftp://a/" and "file:///x" (a scheme that is not http or https)
BadTargets ==
    { Url(FALSE, "https", "", -1, <<>>, FALSE, <<>>),
      Url(TRUE, "ftp", "a", -1, <<"/">>, FALSE, <<>>),
      Url(TRUE, "file", "", -1, <<"/", "x">>, FALSE, <<>>) }

Keys ==
    {extract_robots_url(t).url :
        t \in {u \in Targets \cup BadTargets : extract_robots_url(u).ok}}

UserAgents == { <<"B">>, <<"c">> }

\* ------------------------------------------------------------------------
\* robots_data.rs: RobotsData
\* ------------------------------------------------------------------------
RobotsData(target_url, robots_txt_url, access_result, http_status_code, groups) ==
    [target_url |-> target_url, robots_txt_url |-> robots_txt_url,
     access_result |-> access_result, http_status_code |-> http_status_code,
     groups |-> groups, sitemaps |-> <<>>, content_length_bytes |-> 0,
     truncated |-> FALSE]

\* RobotsData::default()
DefaultData == RobotsData(EmptyUrl, EmptyUrl, "Unspecified", 0, <<>>)

\* the policies the parser produces from the bodies the origins serve
Policies ==
    << <<>>,
       <<[user_agents |-> << <<"b">> >>,
          rules |-> <<[rule_type |-> RuleDisallow, path_pattern |-> <<"/", "x">>]>>]>> >>

\* ------------------------------------------------------------------------
\* fetcher.rs: what the origin does on one fetch, and fetch's classification
\* ------------------------------------------------------------------------
Behaviour(transport, chain, status, streamError, policy) ==
    [transport |-> transport, chain |-> chain, status |-> status,
     streamError |-> streamError, policy |-> policy]

NoBehaviour == Behaviour("none", 0, 0, FALSE, 1)

RedirectChains == {5, 6, MaxChain}

\* transport: "timeout"/"error" before any response, else "ok";
\* chain: number of redirects before the final response; status: the final
\* status; streamError: a chunk of the body fails; policy: the parsed body
OriginBehaviours ==
    { Behaviour("timeout", 0, 0, FALSE, 1), Behaviour("error", 0, 0, FALSE, 1) }
    \cup { Behaviour("ok", 0, s, FALSE, 1) : s \in {100, 304, 400, 404, 499, 500, 599} }
    \cup { Behaviour("ok", 0, s, FALSE, p) : s \in {200, 299}, p \in DOMAIN Policies }
    \cup { Behaviour("ok", 0, 200, TRUE, 1) }
    \cup { Behaviour("ok", 0, 404, TRUE, 2) }
    \cup { Behaviour("ok", n, 200, FALSE, 1) : n \in RedirectChains }

\* the behaviours the origins show in the runs of sequential calls
SeqBehaviours ==
    { Behaviour("timeout", 0, 0, FALSE, 1) }
    \cup { Behaviour("ok", 0, s, FALSE, 1) : s \in {404, 500} }
    \cup { Behaviour("ok", 0, 200, FALSE, 2) }
    \cup { Behaviour("ok", 0, 200, TRUE, 1) }
    \cup { Behaviour("ok", n, 200, FALSE, 1) : n \in RedirectChains }

\* the behaviours the origins show in the runs of concurrent calls
ConcBehaviours ==
    { Behaviour("ok", 0, 404, FALSE, 1), Behaviour("ok", 0, 200, FALSE, 2) }

\* Result<RobotsData, FetchError>; status -1 is None
FetchResult(tag, status, data) == [tag |-> tag, status |-> status, data |-> data]

NoResult == FetchResult("none", -1, DefaultData)

\* a fetch whose arm for 4xx also takes the 5xx statuses
fetch_wide_client_errors(target_url, b) ==
    LET r == extract_robots_url(target_url)
    IN  IF ~r.ok THEN FetchResult("InvalidUrl", -1, DefaultData)
        ELSE IF b.transport = "timeout" THEN FetchResult("Timeout", -1, DefaultData)
        ELSE IF b.transport = "error" THEN FetchResult("Unreachable", -1, DefaultData)
        ELSE IF b.chain > RedirectLimit THEN FetchResult("Unreachable", -1, DefaultData)
        ELSE IF b.status >= 200 /\ b.status <= 299 THEN
            IF b.streamError THEN FetchResult("Unreachable", b.status, DefaultData)
            ELSE FetchResult("Ok", -1,
                    RobotsData(target_url, r.url, "Success", b.status, Policies[b.policy]))
        ELSE IF b.status >= 400 /\ b.status <= 599
        THEN FetchResult("Unavailable", b.status, DefaultData)
        ELSE FetchResult("Unreachable", -1, DefaultData)

fetch(target_url, b) ==
    LET r == extract_robots_url(target_url)
    IN  IF ~r.ok THEN FetchResult("InvalidUrl", -1, DefaultData)
        ELSE IF b.transport = "timeout" THEN FetchResult("Timeout", -1, DefaultData)
        ELSE IF b.transport = "error" THEN FetchResult("Unreachable", -1, DefaultData)
        \* the client gives up with a redirect error, which is not a timeout
        ELSE IF b.chain > RedirectLimit THEN FetchResult("Unreachable", -1, DefaultData)
        ELSE IF b.status >= 200 /\ b.status <= 299 THEN
            IF b.streamError THEN FetchResult("Unreachable", b.status, DefaultData)
            ELSE FetchResult("Ok", -1,
                    RobotsData(target_url, r.url, "Success", b.status, Policies[b.policy]))
        ELSE IF b.status >= 400 /\ b.status <= 499
        THEN FetchResult("Unavailable", b.status, DefaultData)
        ELSE IF b.status >= 500 /\ b.status <= 599
        THEN FetchResult("Unreachable", b.status, DefaultData)
        ELSE FetchResult("Unreachable", -1, DefaultData)

\* ------------------------------------------------------------------------
\* fetcher.rs: the streaming read of a 2xx body
\* ------------------------------------------------------------------------
\* the bytes of a body: a newline, an ASCII byte and a byte that is not valid
\* UTF-8
Bytes == {"\n", "a", "x"}

\* the longest body an origin serves
BodyLimit == MAX_ROBOTS_TXT_SIZE + 2

\* String::from_utf8_lossy: valid bytes as they are, an invalid byte as
\* U+FFFD, which is three bytes long ("R" the first, "r" the other two)
RECURSIVE from_utf8_lossy(_)
from_utf8_lossy(bytes) ==
    IF bytes = <<>> THEN <<>>
    ELSE (IF Head(bytes) = "x" THEN <<"R", "r", "r">> ELSE <<Head(bytes)>>)
         \o from_utf8_lossy(Tail(bytes))

\* iter().rposition(|&b| b == b'\n'): 0-based offset of the last newline, -1
\* for None
rposition(bytes) ==
    IF \A i \in DOMAIN bytes : bytes[i] # "\n" THEN -1
    ELSE (CHOOSE i \in DOMAIN bytes :
             bytes[i] = "\n" /\ \A j \in DOMAIN bytes : bytes[j] = "\n" => j <= i) - 1

\* str::is_char_boundary
is_char_boundary(str, n) ==
    \/ n = 0
    \/ n = Len(str)
    \/ n < Len(str) /\ str[n + 1] # "r"

\* RobotsTxt::parse(&body) followed by RobotsData::from: one group for every
\* line of the body that is not empty, the line being its user agent
ParseGroups(body) ==
    LET lines == SelectSeq(split(body, "\n"), LAMBDA l : l # <<>>)
    IN  [i \in DOMAIN lines |-> [user_agents |-> <<lines[i]>>, rules |-> <<>>]]

\* the pieces of body between the cut points, in order
RECURSIVE Cut(_, _, _)
Cut(body, from, cuts) ==
    IF cuts = {} THEN <<SubSeq(body, from, Len(body))>>
    ELSE LET c == CHOOSE x \in cuts : \A y \in cuts : x <= y
         IN  <<SubSeq(body, from, c)>> \o Cut(body, c + 1, cuts \ {c})

\* the bodies an origin serves, as the chunks bytes_stream() yields
ChunkSeqs ==
    {<<>>} \cup
    UNION { UNION { {Cut(body, 1, cuts) :
                       cuts \in {cs \in SUBSET (1..(n - 1)) : Cardinality(cs) < MaxChunks}} :
                    body \in [1..n -> Bytes] } :
            n \in 1..BodyLimit }

RECURSIVE Flatten(_)
Flatten(chunks) == IF chunks = <<>> THEN <<>> ELSE Head(chunks) \o Flatten(Tail(chunks))

\* the read of one body: pc "reading" in the loop, "parsed" after the parse,
\* "panicked" when String::truncate panicked; chunks: what the origin sends;
\* content_length: response.content_length().unwrap_or(0); nread: the
\* chunks taken from the stream; body, total_bytes, last_newline, truncated:
\* the locals of fetch; data: the snapshot returned
Stream(pc, chunks, content_length, nread, body, total_bytes, last_newline, truncated, data) ==
    [pc |-> pc, chunks |-> chunks, content_length |-> content_length, nread |-> nread,
     body |-> body, total_bytes |-> total_bytes, last_newline |-> last_newline,
     truncated |-> truncated, data |-> data]

NoStream == Stream("idle", <<>>, 0, 0, <<>>, 0, 0, FALSE, DefaultData)

\* the target of the fetch whose body is read
StreamTarget == Url(TRUE, "http", "a", -1, <<"/">>, FALSE, <<>>)

\* fetch from "Parsing robots.txt content" to Ok(data)
Parsed(st, body, truncated) ==
    [st EXCEPT !.pc = "parsed", !.body = body, !.truncated = truncated,
               !.data = [RobotsData(StreamTarget, extract_robots_url(StreamTarget).url,
                                    "Success", 200, ParseGroups(body))
                         EXCEPT !.content_length_bytes = st.content_length,
                                !.truncated = truncated]]

\* a test of the cap made on the bytes already accumulated only
CrossesCapAfterwards(total_bytes, len) == total_bytes > MAX_ROBOTS_TXT_SIZE

\* a test of the cap that a body of exactly the cap fails
CrossesCapWhenReached(total_bytes, len) == total_bytes + len >= MAX_ROBOTS_TXT_SIZE

\* total_bytes + chunk.len() > MAX_ROBOTS_TXT_SIZE
CrossesCap(total_bytes, len) == total_bytes + len > MAX_ROBOTS_TXT_SIZE

\* one turn of `while let Some(chunk) = stream.next().await`, the parse
\* included when the turn leaves the loop
ReadStep(st) ==
    IF st.nread = Len(st.chunks) THEN Parsed(st, st.body, st.truncated)
    ELSE
      LET chunk == st.chunks[st.nread + 1]
          taken == [st EXCEPT !.nread = @ + 1]
      IN  IF CrossesCap(st.total_bytes, Len(chunk)) THEN
              LET remaining == MAX_ROBOTS_TXT_SIZE - st.total_bytes
                  partial == SubSeq(chunk, 1, remaining)
                  last_nl == rposition(partial)
              IN  IF last_nl # -1
                  THEN Parsed(taken, st.body \o from_utf8_lossy(SubSeq(partial, 1, last_nl + 1)),
                              TRUE)
                  ELSE IF st.last_newline >= Len(st.body)
                  THEN Parsed(taken, st.body, TRUE)
                  ELSE IF is_char_boundary(st.body, st.last_newline)
                  THEN Parsed(taken, SubSeq(st.body, 1, st.last_newline), TRUE)
                  ELSE [taken EXCEPT !.pc = "panicked", !.truncated = TRUE]
          ELSE
              [taken EXCEPT
                 !.last_newline = IF rposition(chunk) # -1
                                  THEN Len(st.body) + rposition(chunk) ELSE @,
                 !.body = @ \o from_utf8_lossy(chunk),
                 !.total_bytes = @ + Len(chunk)]

\* ------------------------------------------------------------------------
\* cache.rs: MokaCache with a 24 h time-to-live
\* ------------------------------------------------------------------------
\* an entry: the value, the time of the insert, and for the record the
\* numbers of the fetch and of the set that produced it
Entry(present, data, at, fid, sid) ==
    [present |-> present, data |-> data, at |-> at, fid |-> fid, sid |-> sid]

NoEntry == Entry(FALSE, DefaultData, 0, 0, 0)

\* a get whose entries are expired from the moment they are inserted
CacheGetNoTtl(c, key, t) ==
    IF c[key].present /\ t < c[key].at THEN c[key] ELSE NoEntry

\* a get that keeps Unavailable and Unreachable entries for one hour only
CacheGetShortNegativeTtl(c, key, t) ==
    IF c[key].present
       /\ t < c[key].at + (IF c[key].data.access_result = "Success" THEN TTL ELSE 1)
    THEN c[key] ELSE NoEntry

\* MokaCache::get at time t: Some(entry) until the entry's time-to-live is over
CacheGet(c, key, t) ==
    IF c[key].present /\ t < c[key].at + TTL THEN c[key] ELSE NoEntry

\* a set that leaves an entry already present in place
CacheSetIfAbsent(c, key, e) ==
    IF c[key].present THEN c ELSE [c EXCEPT ![key] = e]

\* a set that keeps the entry of the more recent fetch
CacheSetKeepFresher(c, key, e) ==
    IF c[key].present /\ c[key].fid > e.fid THEN c ELSE [c EXCEPT ![key] = e]

\* MokaCache::set: insert, replacing what is there
CacheSet(c, key, e) == [c EXCEPT ![key] = e]

\* a delete that empties the whole cache
CacheDeleteClearsAll(c, key, t) ==
    [cache |-> [k \in DOMAIN c |-> NoEntry],
     removed |-> c[key].present /\ t < c[key].at + TTL]

\* MokaCache::delete at time t: remove the entry; true when a live one was there
CacheDelete(c, key, t) ==
    [cache |-> [c EXCEPT ![key] = NoEntry],
     removed |-> c[key].present /\ t < c[key].at + TTL]

\* ------------------------------------------------------------------------
\* service.rs: the coordinator
\* ------------------------------------------------------------------------
\* get_robots_data on a miss: the match on the fetch result.
\* status: "OK" or the error Status; store: whether cache.set is called
Outcome(status, data, store) == [status |-> status, data |-> data, store |-> store]

\* a match that answers Unavailable, Unreachable and Timeout without cache.set
NormalizeNoNegativeStore(fres, target_url, robots_url) ==
    CASE fres.tag = "Ok" -> Outcome("OK", fres.data, TRUE)
      [] fres.tag = "Unavailable" ->
            Outcome("OK", RobotsData(target_url, robots_url, "Unavailable", fres.status, <<>>), FALSE)
      [] fres.tag = "Unreachable" ->
            Outcome("OK", RobotsData(target_url, robots_url, "Unreachable",
                                     IF fres.status = -1 THEN 0 ELSE fres.status, <<>>), FALSE)
      [] fres.tag = "Timeout" ->
            Outcome("OK", RobotsData(target_url, robots_url, "Unreachable", 0, <<>>), FALSE)
      [] OTHER -> Outcome("Internal", DefaultData, FALSE)

\* a match whose error arms put the target URL in robots_txt_url
NormalizeTargetAsRobotsUrl(fres, target_url, robots_url) ==
    CASE fres.tag = "Ok" -> Outcome("OK", fres.data, TRUE)
      [] fres.tag = "Unavailable" ->
            Outcome("OK", RobotsData(target_url, target_url, "Unavailable", fres.status, <<>>), TRUE)
      [] fres.tag = "Unreachable" ->
            Outcome("OK", RobotsData(target_url, target_url, "Unreachable",
                                     IF fres.status = -1 THEN 0 ELSE fres.status, <<>>), TRUE)
      [] fres.tag = "Timeout" ->
            Outcome("OK", RobotsData(target_url, target_url, "Unreachable", 0, <<>>), TRUE)
      [] OTHER -> Outcome("Internal", DefaultData, FALSE)

Normalize(fres, target_url, robots_url) ==
    CASE fres.tag = "Ok" -> Outcome("OK", fres.data, TRUE)
      [] fres.tag = "Unavailable" ->
            Outcome("OK", RobotsData(target_url, robots_url, "Unavailable", fres.status, <<>>), TRUE)
      [] fres.tag = "Unreachable" ->
            Outcome("OK", RobotsData(target_url, robots_url, "Unreachable",
                                     IF fres.status = -1 THEN 0 ELSE fres.status, <<>>), TRUE)
      [] fres.tag = "Timeout" ->
            Outcome("OK", RobotsData(target_url, robots_url, "Unreachable", 0, <<>>), TRUE)
      [] OTHER -> Outcome("Internal", DefaultData, FALSE)

\* the decision without the check for Unreachable
AllowedForFailOpen(data, target_url, user_agent) ==
    is_allowed(data.groups, user_agent, extract_path_from_url(target_url))

\* is_allowed after get_robots_data returned data
AllowedFor(data, target_url, user_agent) ==
    IF data.access_result = "Unreachable" THEN FALSE
    ELSE is_allowed(data.groups, user_agent, extract_path_from_url(target_url))

\* ------------------------------------------------------------------------
\* State
\* ------------------------------------------------------------------------
VARIABLES
    cache,      \* MokaCache: robots URL -> entry
    calls,      \* the RPC calls in flight, one per caller
    last,       \* the call answered (or dropped) by the latest step, if any
    now,        \* the clock, in hours
    ticks,      \* number of clock steps taken
    nfetch,     \* number of fetches completed (numbers the snapshots by fetch order)
    nstore,     \* number of misses answered (numbers the snapshots by store order)
    win,        \* per key: the current TTL window, opened by the miss that starts it
    lastObs,    \* per key: the entry seen by the latest cache hit
    lastSet,    \* per key: the latest cache set
    fault,      \* the cache operation that returned Err in the latest step, if any
    stream,     \* the streaming read of a 2xx body by fetch
    decision,   \* a call of RobotsData::is_allowed and its result
    canon,      \* a target URL text and its robots URL, taken once and twice
    kv          \* the cache operations called directly and the latest result

vars == <<cache, calls, last, now, ticks, nfetch, nstore, win, lastObs, lastSet,
          fault, stream, decision, canon, kv>>

Callers == 1..NumCallers

\* a call: where it stands (pc), its request (op, target, ua), the key, whether
\* the lookup hit, whether the lookup fell into an open TTL window of the key,
\* what the origin did and what fetch returned, the response (status, data,
\* allowed), the fetch and set numbers of the snapshot it obtained, and what
\* the previous hit on the key had seen
Call(pc, op, target, ua, key, hit, inWin, beh, fres, status, data, allowed, fid, sid, prev) ==
    [pc |-> pc, op |-> op, target |-> target, ua |-> ua, key |-> key, hit |-> hit,
     inWin |-> inWin, beh |-> beh, fres |-> fres, status |-> status,
     data |-> data, allowed |-> allowed, fid |-> fid, sid |-> sid, prev |-> prev]

\* what a cache hit saw: fetch number, set number, expiry time of the entry
Obs(fid, sid, exp) == [fid |-> fid, sid |-> sid, exp |-> exp]

NoObs == Obs(0, 0, 0)

IdleCall ==
    Call("idle", "", EmptyUrl, <<>>, EmptyUrl, FALSE, FALSE, NoBehaviour, NoResult, "",
         DefaultData, FALSE, 0, 0, NoObs)

\* a TTL window of a key: the answered miss that opened it (time, number,
\* snapshot) and the number of fetches made for the key: the one of that miss
\* and those completed while the window is open
Window(open, start, sid, first, contacts) ==
    [open |-> open, start |-> start, sid |-> sid, first |-> first, contacts |-> contacts]

NoWindow == Window(FALSE, 0, 0, DefaultData, 0)

\* a call data.is_allowed(user_agent, path), the indices of its
\* groups_to_check and what it returned
Decision(pc, groups, user_agent, path, groups_to_check, allowed) ==
    [pc |-> pc, groups |-> groups, user_agent |-> user_agent, path |-> path,
     groups_to_check |-> groups_to_check, allowed |-> allowed]

NoDecision == Decision("idle", <<>>, <<>>, <<>>, {}, FALSE)

\* a target URL text, robots_url_for of it (first) and of the result (second)
Canon(pc, text, first, second) ==
    [pc |-> pc, text |-> text, first |-> first, second |-> second]

NoRobotsUrl == [ok |-> FALSE, text |-> <<>>]

NoCanon == Canon("idle", <<>>, NoRobotsUrl, NoRobotsUrl)

\* the calls made on the cache so far and what the latest returned: for a get
\* the Option (found, value), for a delete the bool (found)
CacheOp(hist, found, value) == [hist |-> hist, found |-> found, value |-> value]

NoOp == CacheOp(<<>>, FALSE, DefaultData)

Init ==
    /\ cache = [k \in Keys |-> NoEntry]
    /\ calls = [c \in Callers |-> IdleCall]
    /\ last = IdleCall
    /\ now = 0
    /\ ticks = 0
    /\ nfetch = 0
    /\ nstore = 0
    /\ win = [k \in Keys |-> NoWindow]
    /\ lastObs = [k \in Keys |-> NoObs]
    /\ lastSet = [k \in Keys |-> NoEntry]
    /\ fault = "none"
    /\ canon = NoCanon
    /\ kv = NoOp
    /\ stream = NoStream
    /\ decision = NoDecision

\* the key's TTL window is open: a miss was answered less than 24 h ago
LiveWindow(k) == win[k].open /\ now < win[k].start + TTL

InFlight(c) == calls[c].pc \in {"fetching", "fetched"}

\* a new call is the first one not in flight
FirstFree(c) == ~InFlight(c) /\ \A d \in Callers : d < c => InFlight(d)

\* the decision in the response: IsAllowedResponse.allowed (FALSE for GetRobots,
\* whose response is the data)
Answer(op, data, target, ua) ==
    IF op = "IsAllowed" THEN AllowedFor(data, target, ua) ELSE FALSE

\* a lookup whose hit restarts the lifetime of the entry (time to idle)
LookupRefreshesEntry(c, op, target, ua) ==
    /\ FirstFree(c)
    /\ LET r == extract_robots_url(target)
           e == CacheGet(cache, r.url, now)
       IN  IF ~r.ok THEN
               /\ last' = Call("done", op, target, ua, EmptyUrl, FALSE, FALSE,
                               NoBehaviour, NoResult, "InvalidArgument", DefaultData,
                               FALSE, 0, 0, NoObs)
               /\ UNCHANGED <<cache, calls, lastObs>>
           ELSE IF e.present THEN
               /\ last' = Call("done", op, target, ua, r.url, TRUE, LiveWindow(r.url),
                               NoBehaviour, NoResult, "OK", e.data,
                               Answer(op, e.data, target, ua), e.fid, e.sid, lastObs[r.url])
               /\ lastObs' = [lastObs EXCEPT ![r.url] = Obs(e.fid, e.sid, e.at + TTL)]
               /\ cache' = [cache EXCEPT ![r.url].at = now]
               /\ UNCHANGED calls
           ELSE
               /\ nfetch + Cardinality({d \in Callers : calls[d].pc = "fetching"}) < MaxFetches
               /\ calls' = [calls EXCEPT ![c] =
                     Call("fetching", op, target, ua, r.url, FALSE, LiveWindow(r.url),
                          NoBehaviour, NoResult, "", DefaultData, FALSE, 0, 0, NoObs)]
               /\ last' = IdleCall
               /\ UNCHANGED <<cache, lastObs>>
    /\ UNCHANGED <<now, ticks, nfetch, nstore, win, lastSet>>
    /\ fault' = "none"
    /\ UNCHANGED <<stream, decision, canon, kv>>

\* get_robots_txt / is_allowed up to the answer of cache.get: canonicalize,
\* look the key up; a hit answers the call, a miss starts the fetch
Lookup(c, op, target, ua) ==
    /\ FirstFree(c)
    /\ LET r == extract_robots_url(target)
           e == CacheGet(cache, r.url, now)
       IN  IF ~r.ok THEN
               /\ last' = Call("done", op, target, ua, EmptyUrl, FALSE, FALSE,
                               NoBehaviour, NoResult, "InvalidArgument", DefaultData,
                               FALSE, 0, 0, NoObs)
               /\ UNCHANGED <<calls, lastObs>>
           ELSE IF e.present THEN
               /\ last' = Call("done", op, target, ua, r.url, TRUE, LiveWindow(r.url),
                               NoBehaviour, NoResult, "OK", e.data,
                               Answer(op, e.data, target, ua), e.fid, e.sid, lastObs[r.url])
               /\ lastObs' = [lastObs EXCEPT ![r.url] = Obs(e.fid, e.sid, e.at + TTL)]
               /\ UNCHANGED calls
           ELSE
               /\ nfetch + Cardinality({d \in Callers : calls[d].pc = "fetching"}) < MaxFetches
               /\ calls' = [calls EXCEPT ![c] =
                     Call("fetching", op, target, ua, r.url, FALSE, LiveWindow(r.url),
                          NoBehaviour, NoResult, "", DefaultData, FALSE, 0, 0, NoObs)]
               /\ last' = IdleCall
               /\ UNCHANGED lastObs
    /\ UNCHANGED <<cache, now, ticks, nfetch, nstore, win, lastSet>>
    /\ fault' = "none"
    /\ UNCHANGED <<stream, decision, canon, kv>>

\* self.fetcher.fetch(&target_url) returns: the origin behaved as b
Fetch(c, b) ==
    /\ calls[c].pc = "fetching"
    /\ nfetch' = nfetch + 1
    /\ calls' = [calls EXCEPT ![c].pc = "fetched", ![c].beh = b,
                              ![c].fres = fetch(calls[c].target, b),
                              ![c].fid = nfetch + 1]
    /\ win' = [win EXCEPT ![calls[c].key] =
                  IF LiveWindow(calls[c].key)
                  THEN [@ EXCEPT !.contacts = @ + 1]
                  ELSE @]
    /\ last' = IdleCall
    /\ UNCHANGED <<cache, now, ticks, nstore, lastObs, lastSet>>
    /\ fault' = "none"
    /\ UNCHANGED <<stream, decision, canon, kv>>

\* the arm of get_robots_data for the fetch result: cache.set and the answer
Store(c) ==
    /\ calls[c].pc = "fetched"
    /\ LET o == Normalize(calls[c].fres, calls[c].target, calls[c].key)
           k == o.data.robots_txt_url
           e == Entry(TRUE, o.data, now, calls[c].fid, nstore + 1)
       IN  /\ IF o.store
              THEN /\ cache' = CacheSet(cache, k, e)
                   /\ lastSet' = [lastSet EXCEPT ![k] = e]
              ELSE UNCHANGED <<cache, lastSet>>
           /\ IF o.status = "OK"
              THEN /\ nstore' = nstore + 1
                   /\ win' = [win EXCEPT ![k] =
                                 IF LiveWindow(k) THEN @
                                 ELSE Window(TRUE, now, nstore + 1, o.data, 1)]
                   /\ last' = [calls[c] EXCEPT
                                 !.pc = "done", !.status = o.status,
                                 !.data = o.data, !.sid = nstore + 1,
                                 !.allowed = Answer(calls[c].op, o.data, calls[c].target,
                                                    calls[c].ua)]
              ELSE /\ last' = [calls[c] EXCEPT !.pc = "done", !.status = o.status]
                   /\ UNCHANGED <<nstore, win>>
    /\ calls' = [calls EXCEPT ![c] = IdleCall]
    /\ UNCHANGED <<now, ticks, nfetch, lastObs>>
    /\ fault' = "none"
    /\ UNCHANGED <<stream, decision, canon, kv>>

\* a cancellation handled like a timeout: an Unreachable snapshot is stored
CancelStoresUnreachable(c) ==
    /\ calls[c].pc = "fetching"
    /\ last' = [calls[c] EXCEPT !.pc = "cancelled"]
    /\ calls' = [calls EXCEPT ![c] = IdleCall]
    /\ cache' = CacheSet(cache, calls[c].key,
                         Entry(TRUE, RobotsData(calls[c].target, calls[c].key,
                                                "Unreachable", 0, <<>>), now, 0, 0))
    /\ UNCHANGED <<now, ticks, nfetch, nstore, win, lastObs, lastSet>>
    /\ fault' = "none"
    /\ UNCHANGED <<stream, decision, canon, kv>>

\* the caller drops the call while the fetch is in flight
Cancel(c) ==
    /\ calls[c].pc = "fetching"
    /\ last' = [calls[c] EXCEPT !.pc = "cancelled"]
    /\ calls' = [calls EXCEPT ![c] = IdleCall]
    /\ UNCHANGED <<cache, now, ticks, nfetch, nstore, win, lastObs, lastSet>>
    /\ fault' = "none"
    /\ UNCHANGED <<stream, decision, canon, kv>>

\* time passes: the clock is read 23 h and 1 h later in turn, which puts a
\* reading just before and one at the end of the time-to-live of an entry
TickStep(n) == IF n % 2 = 0 THEN TTL - 1 ELSE 1

Tick ==
    /\ ticks < MaxTicks
    /\ ticks' = ticks + 1
    /\ now' = now + TickStep(ticks)
    /\ last' = IdleCall
    /\ UNCHANGED <<cache, calls, nfetch, nstore, win, lastObs, lastSet>>
    /\ fault' = "none"
    /\ UNCHANGED <<stream, decision, canon, kv>>

\* the requests made in the runs of sequential calls
SeqRequests ==
    {<<"GetRobots", t, <<"B">>>> : t \in Targets}
    \cup {<<"IsAllowed", t, <<"B">>>> : t \in {u \in Targets : u.port = 80}}

\* the requests made in the runs of concurrent calls
ConcRequests ==
    {<<"GetRobots", t, <<"B">>>> : t \in {u \in Targets : u.parses /\ u.port = -1}}
    \cup {<<"IsAllowed", t, <<"B">>>> : t \in {u \in Targets : u.port = 80}}

\* concurrent calls
DoLookup == \E c \in Callers, r \in ConcRequests : Lookup(c, r[1], r[2], r[3])

DoFetch == \E c \in Callers, b \in ConcBehaviours : Fetch(c, b)

DoStore == \E c \in Callers : Store(c)

DoCancel == \E c \in Callers : Cancel(c)

Next == DoLookup \/ DoFetch \/ DoStore \/ DoCancel \/ Tick

Spec == Init /\ [][Next]_vars

\* calls one after the other: a call starts only when no other is in flight
DoLookupSeq ==
    /\ \A c \in Callers : ~InFlight(c)
    /\ \E c \in Callers, r \in SeqRequests : Lookup(c, r[1], r[2], r[3])

DoFetchSeq == \E c \in Callers, b \in SeqBehaviours : Fetch(c, b)

NextSeq == DoLookupSeq \/ DoFetchSeq \/ DoStore \/ DoCancel \/ Tick

SpecSeq == Init /\ [][NextSeq]_vars

\* the coordinator's match on the fetch result, applied to every value of
\* Result<RobotsData, FetchError>
FetchResults(target_url) ==
    {fetch(target_url, b) : b \in OriginBehaviours}
    \cup {FetchResult(tag, -1, DefaultData) : tag \in {"TooManyRedirects", "ParseError", "InvalidUrl"}}

InitNorm ==
    /\ cache = [k \in Keys |-> NoEntry]
    /\ \E r \in {q \in SeqRequests : extract_robots_url(q[2]).ok} :
         \E fres \in FetchResults(r[2]) :
            calls = [c \in Callers |->
                        IF c = 1
                        THEN Call("fetched", r[1], r[2], r[3], extract_robots_url(r[2]).url,
                                  FALSE, FALSE, NoBehaviour, fres, "", DefaultData, FALSE,
                                  1, 0, NoObs)
                        ELSE IdleCall]
    /\ last = IdleCall
    /\ now = 0
    /\ ticks = 0
    /\ nfetch = 1
    /\ nstore = 0
    /\ win = [k \in Keys |-> NoWindow]
    /\ lastObs = [k \in Keys |-> NoObs]
    /\ lastSet = [k \in Keys |-> NoEntry]
    /\ fault = "none"
    /\ canon = NoCanon
    /\ kv = NoOp
    /\ stream = NoStream
    /\ decision = NoDecision

NextNorm == DoStore

SpecNorm == InitNorm /\ [][NextNorm]_vars

\* ------------------------------------------------------------------------
\* The coordinator over a Cache whose get and set may return Err (the trait
\* of cache.rs allows it; MokaCache never does)
\* ------------------------------------------------------------------------
\* a coordinator that takes Err from cache.get for a miss and fetches
GetFailsAsMiss(c, op, target, ua) ==
    /\ FirstFree(c)
    /\ extract_robots_url(target).ok
    /\ nfetch + Cardinality({d \in Callers : calls[d].pc = "fetching"}) < MaxFetches
    /\ calls' = [calls EXCEPT ![c] =
          Call("fetching", op, target, ua, extract_robots_url(target).url, FALSE,
               LiveWindow(extract_robots_url(target).url),
               NoBehaviour, NoResult, "", DefaultData, FALSE, 0, 0, NoObs)]
    /\ last' = IdleCall
    /\ fault' = "get"
    /\ UNCHANGED <<cache, now, ticks, nfetch, nstore, win, lastObs, lastSet, stream, decision, canon, kv>>

\* get_robots_data when cache.get returns Err: Status::internal, nothing else
GetFails(c, op, target, ua) ==
    /\ FirstFree(c)
    /\ extract_robots_url(target).ok
    /\ last' = Call("done", op, target, ua, extract_robots_url(target).url, FALSE,
                    LiveWindow(extract_robots_url(target).url),
                    NoBehaviour, NoResult, "Internal", DefaultData, FALSE, 0, 0, NoObs)
    /\ fault' = "get"
    /\ UNCHANGED <<cache, calls, now, ticks, nfetch, nstore, win, lastObs, lastSet,
                   stream, decision, canon, kv>>

\* self.fetcher.fetch(&target_url) returns an Err that fetch builds from no
\* response: FetchError::ParseError
FetchFails(c, tag) ==
    /\ calls[c].pc = "fetching"
    /\ nfetch' = nfetch + 1
    /\ calls' = [calls EXCEPT ![c].pc = "fetched",
                              ![c].fres = FetchResult(tag, -1, DefaultData),
                              ![c].fid = nfetch + 1]
    /\ last' = IdleCall
    /\ fault' = "none"
    /\ UNCHANGED <<cache, now, ticks, nstore, win, lastObs, lastSet, stream, decision, canon, kv>>

\* a coordinator that returns the error of cache.set to the caller
SetFailsAnswersError(c) ==
    /\ calls[c].pc = "fetched"
    /\ Normalize(calls[c].fres, calls[c].target, calls[c].key).store
    /\ last' = [calls[c] EXCEPT !.pc = "done", !.status = "Internal"]
    /\ calls' = [calls EXCEPT ![c] = IdleCall]
    /\ fault' = "set"
    /\ UNCHANGED <<cache, now, ticks, nfetch, nstore, win, lastObs, lastSet, stream, decision, canon, kv>>

\* the arm of get_robots_data for the fetch result when cache.set returns
\* Err: the warning is logged and Ok(data) returned
SetFails(c) ==
    /\ calls[c].pc = "fetched"
    /\ LET o == Normalize(calls[c].fres, calls[c].target, calls[c].key)
           k == o.data.robots_txt_url
       IN  /\ o.store
           /\ nstore' = nstore + 1
           /\ win' = [win EXCEPT ![k] =
                         IF LiveWindow(k) THEN @
                         ELSE Window(TRUE, now, nstore + 1, o.data, 1)]
           /\ last' = [calls[c] EXCEPT
                         !.pc = "done", !.status = o.status,
                         !.data = o.data, !.sid = nstore + 1,
                         !.allowed = Answer(calls[c].op, o.data, calls[c].target,
                                            calls[c].ua)]
    /\ calls' = [calls EXCEPT ![c] = IdleCall]
    /\ fault' = "set"
    /\ UNCHANGED <<cache, now, ticks, nfetch, lastObs, lastSet, stream, decision, canon, kv>>

\* the behaviours the origins show in the runs over a failing cache
FaultyBehaviours ==
    { Behaviour("timeout", 0, 0, FALSE, 1) }
    \cup { Behaviour("ok", 0, s, FALSE, 1) : s \in {404, 500} }
    \cup { Behaviour("ok", 0, 200, FALSE, 2) }

\* the requests made in the runs over a failing cache: two targets of one key
FaultyRequests ==
    {<<"GetRobots", t, <<"B">>>> : t \in {u \in Targets : u.parses /\ u.port = -1}}
    \cup {<<"IsAllowed", t, <<"B">>>> : t \in {u \in Targets : u.port = 80}}

DoLookupFaulty ==
    /\ \A c \in Callers : ~InFlight(c)
    /\ \E c \in Callers, r \in FaultyRequests : Lookup(c, r[1], r[2], r[3])

DoGetFails ==
    /\ \A c \in Callers : ~InFlight(c)
    /\ \E c \in Callers, r \in FaultyRequests : GetFails(c, r[1], r[2], r[3])

DoFetchFaulty == \E c \in Callers, b \in FaultyBehaviours : Fetch(c, b)

DoFetchFails == \E c \in Callers : FetchFails(c, "ParseError")

DoSetFails == \E c \in Callers : SetFails(c)

NextFaulty ==
    DoLookupFaulty \/ DoGetFails \/ DoFetchFaulty \/ DoFetchFails \/ DoStore \/ DoSetFails

SpecFaulty == Init /\ [][NextFaulty]_vars

\* ------------------------------------------------------------------------
\* RobotsData::is_allowed on its own, for every policy, user agent and path
\* ------------------------------------------------------------------------
MatchPatterns == { <<"/">>, <<"/", "x">>, <<"/", "x", "$">>, <<"/", "*">> }

MatchPaths == { <<"/">>, <<"/", "x">>, <<"/", "x", "y">> }

MatchUserAgents == { <<"B">>, <<"B", "c">>, <<"z">> }

MatchRules ==
    {[rule_type |-> ty, path_pattern |-> pat] :
        ty \in {RuleAllow, RuleDisallow}, pat \in MatchPatterns}

\* the policies: a group for "b" with up to MaxRules rules and a group for "c"
\* with at most one
MatchPolicies ==
    { << [user_agents |-> << <<"b">> >>, rules |-> r1],
         [user_agents |-> << <<"c">> >>, rules |-> r2] >> :
        r1 \in UNION {[1..n -> MatchRules] : n \in 0..MaxRules},
        r2 \in UNION {[1..n -> MatchRules] : n \in 0..1} }

InitMatch ==
    /\ cache = [k \in Keys |-> NoEntry]
    /\ calls = [c \in Callers |-> IdleCall]
    /\ last = IdleCall
    /\ now = 0
    /\ ticks = 0
    /\ nfetch = 0
    /\ nstore = 0
    /\ win = [k \in Keys |-> NoWindow]
    /\ lastObs = [k \in Keys |-> NoObs]
    /\ lastSet = [k \in Keys |-> NoEntry]
    /\ fault = "none"
    /\ canon = NoCanon
    /\ kv = NoOp
    /\ stream = NoStream
    /\ \E groups \in MatchPolicies, ua \in MatchUserAgents, path \in MatchPaths :
          decision = Decision("asked", groups, ua, path, {}, FALSE)

Decide ==
    /\ decision.pc = "asked"
    /\ decision' = [decision EXCEPT
                       !.pc = "answered",
                       !.groups_to_check = GroupsToCheck(decision.groups,
                                                         decision.user_agent),
                       !.allowed = is_allowed(decision.groups, decision.user_agent,
                                              decision.path)]
    /\ UNCHANGED <<cache, calls, last, now, ticks, nfetch, nstore, win, lastObs, lastSet,
                   fault, stream, canon, kv>>

NextMatch == Decide

SpecMatch == InitMatch /\ [][NextMatch]_vars

\* the selection of the groups: policies of up to two groups, each with one
\* or two user-agent tokens; the first group disallows everything, the second
\* allows /x.  Request user agents are product names and hold no *
SelectTokens == { <<"b">>, <<"B", "c">>, <<"c">>, <<"*">> }

SelectUserAgents == { <<"B">>, <<"b", "C">>, <<"c", "b">>, <<"z">> }

SelectTokenLists == UNION {[1..n -> SelectTokens] : n \in 1..2}

SelectPolicies ==
    { <<>> }
    \cup { << [user_agents |-> t1,
               rules |-> <<[rule_type |-> RuleDisallow, path_pattern |-> <<"/">>]>>] >> :
             t1 \in SelectTokenLists }
    \cup { << [user_agents |-> t1,
               rules |-> <<[rule_type |-> RuleDisallow, path_pattern |-> <<"/">>]>>],
              [user_agents |-> t2,
               rules |-> <<[rule_type |-> RuleAllow, path_pattern |-> <<"/", "x">>]>>] >> :
             t1 \in SelectTokenLists, t2 \in SelectTokenLists }

InitSelect ==
    /\ cache = [k \in Keys |-> NoEntry]
    /\ calls = [c \in Callers |-> IdleCall]
    /\ last = IdleCall
    /\ now = 0
    /\ ticks = 0
    /\ nfetch = 0
    /\ nstore = 0
    /\ win = [k \in Keys |-> NoWindow]
    /\ lastObs = [k \in Keys |-> NoObs]
    /\ lastSet = [k \in Keys |-> NoEntry]
    /\ fault = "none"
    /\ canon = NoCanon
    /\ kv = NoOp
    /\ stream = NoStream
    /\ \E groups \in SelectPolicies, ua \in SelectUserAgents :
          decision = Decision("asked", groups, ua, <<"/", "x">>, {}, FALSE)

SpecSelect == InitSelect /\ [][NextMatch]_vars

\* the matching of one pattern: a policy of one * group with one Disallow
\* rule, for every pattern of up to MaxPattern characters, anchored with $ or
\* not, and every path of up to MaxPath characters
PatternBodies == UNION {[1..n -> {"/", "a", "*"}] : n \in 0..MaxPattern}

PatternSet == PatternBodies \cup {b \o <<"$">> : b \in PatternBodies}

PathSet == {<<"/">> \o t : t \in UNION {[1..n -> {"/", "a"}] : n \in 0..(MaxPath - 1)}}

InitPattern ==
    /\ cache = [k \in Keys |-> NoEntry]
    /\ calls = [c \in Callers |-> IdleCall]
    /\ last = IdleCall
    /\ now = 0
    /\ ticks = 0
    /\ nfetch = 0
    /\ nstore = 0
    /\ win = [k \in Keys |-> NoWindow]
    /\ lastObs = [k \in Keys |-> NoObs]
    /\ lastSet = [k \in Keys |-> NoEntry]
    /\ fault = "none"
    /\ canon = NoCanon
    /\ kv = NoOp
    /\ stream = NoStream
    /\ \E pattern \in PatternSet, path \in PathSet :
          decision = Decision("asked",
                              << [user_agents |-> << <<"*">> >>,
                                  rules |-> <<[rule_type |-> RuleDisallow,
                                               path_pattern |-> pattern]>>] >>,
                              <<"B">>, path, {}, FALSE)

SpecPattern == InitPattern /\ [][NextMatch]_vars

\* extract_robots_url on its own, applied to a target text and then to its
\* own result
CanonTexts ==
    { <<scheme, "://", host>>
          \o (IF port = "" THEN <<>> ELSE <<":", port>>)
          \o path
          \o (IF query THEN <<"?", "q">> ELSE <<>>) :
        scheme \in {"http", "https", "HTTP", "ftp"},
        host \in {"a", "A", ""},
        port \in {"", "80", "443", "8080"},
        path \in {<<>>, <<"/", "x">>},
        query \in BOOLEAN }
    \cup { <<"n">> }

InitCanon ==
    /\ cache = [k \in Keys |-> NoEntry]
    /\ calls = [c \in Callers |-> IdleCall]
    /\ last = IdleCall
    /\ now = 0
    /\ ticks = 0
    /\ nfetch = 0
    /\ nstore = 0
    /\ win = [k \in Keys |-> NoWindow]
    /\ lastObs = [k \in Keys |-> NoObs]
    /\ lastSet = [k \in Keys |-> NoEntry]
    /\ fault = "none"
    /\ stream = NoStream
    /\ decision = NoDecision
    /\ kv = NoOp
    /\ \E text \in CanonTexts : canon = Canon("asked", text, NoRobotsUrl, NoRobotsUrl)

Canonicalize ==
    /\ canon.pc = "asked"
    /\ canon' = [canon EXCEPT !.pc = "once", !.first = robots_url_for(canon.text)]
    /\ UNCHANGED <<cache, calls, last, now, ticks, nfetch, nstore, win, lastObs, lastSet,
                   fault, stream, decision, kv>>

Recanonicalize ==
    /\ canon.pc = "once"
    /\ canon.first.ok
    /\ canon' = [canon EXCEPT !.pc = "twice", !.second = robots_url_for(canon.first.text)]
    /\ UNCHANGED <<cache, calls, last, now, ticks, nfetch, nstore, win, lastObs, lastSet,
                   fault, stream, decision, kv>>

NextCanon == Canonicalize \/ Recanonicalize

SpecCanon == InitCanon /\ [][NextCanon]_vars

\* is_allowed from the target text on: extract_path_from_url, then
\* RobotsData::is_allowed, for targets with and without query and fragment
PathTexts ==
    { <<scheme, "://", "a">>
          \o (IF port = "" THEN <<>> ELSE <<":", port>>)
          \o path \o query \o fragment :
        scheme \in {"http", "https"},
        port \in {"", "8080"},
        path \in {<<>>, <<"/", "x">>, <<"/", "x", "/", "y">>},
        query \in {<<>>, <<"?">>, <<"?", "q">>},
        fragment \in {<<>>, <<"#", "f">>} }

PathPolicies ==
    { << [user_agents |-> << <<"*">> >>,
          rules |-> <<[rule_type |-> RuleDisallow, path_pattern |-> pattern]>>] >> :
        pattern \in { <<"/", "x", "?">>, <<"/", "x", "$">> } }

InitPath ==
    /\ cache = [k \in Keys |-> NoEntry]
    /\ calls = [c \in Callers |-> IdleCall]
    /\ last = IdleCall
    /\ now = 0
    /\ ticks = 0
    /\ nfetch = 0
    /\ nstore = 0
    /\ win = [k \in Keys |-> NoWindow]
    /\ lastObs = [k \in Keys |-> NoObs]
    /\ lastSet = [k \in Keys |-> NoEntry]
    /\ fault = "none"
    /\ stream = NoStream
    /\ kv = NoOp
    /\ \E text \in PathTexts, groups \in PathPolicies :
          /\ canon = Canon("target", text, NoRobotsUrl, NoRobotsUrl)
          /\ decision = Decision("idle", groups, <<"B">>, <<>>, {}, FALSE)

\* is_allowed up to the call of data.is_allowed: the path of the target
ExtractPath ==
    /\ canon.pc = "target"
    /\ canon' = [canon EXCEPT !.pc = "extracted"]
    /\ decision' = [decision EXCEPT
                       !.pc = "asked",
                       !.path = extract_path_from_url(ParseUrl(canon.text))]
    /\ UNCHANGED <<cache, calls, last, now, ticks, nfetch, nstore, win, lastObs, lastSet,
                   fault, stream, kv>>

NextPath == ExtractPath \/ Decide

SpecPath == InitPath /\ [][NextPath]_vars

\* the cache on its own: up to MaxOps calls of get, set and delete, all
\* within the time-to-live
CacheValues ==
    { RobotsData(EmptyUrl, EmptyUrl, "Success", 200, Policies[2]),
      RobotsData(EmptyUrl, EmptyUrl, "Unavailable", 404, <<>>) }

CacheCall(kind, key, value) == [kind |-> kind, key |-> key, value |-> value]

GetOp(key) ==
    /\ Len(kv.hist) < MaxOps
    /\ LET e == CacheGet(cache, key, now)
       IN  kv' = CacheOp(Append(kv.hist, CacheCall("get", key, DefaultData)),
                         e.present, e.data)
    /\ UNCHANGED <<cache, calls, last, now, ticks, nfetch, nstore, win, lastObs, lastSet,
                   fault, stream, decision, canon>>

SetOp(key, value) ==
    /\ Len(kv.hist) < MaxOps
    /\ cache' = CacheSet(cache, key, Entry(TRUE, value, now, 0, 0))
    /\ kv' = CacheOp(Append(kv.hist, CacheCall("set", key, value)), FALSE, DefaultData)
    /\ UNCHANGED <<calls, last, now, ticks, nfetch, nstore, win, lastObs, lastSet,
                   fault, stream, decision, canon>>

DeleteOp(key) ==
    /\ Len(kv.hist) < MaxOps
    /\ LET r == CacheDelete(cache, key, now)
       IN  /\ cache' = r.cache
           /\ kv' = CacheOp(Append(kv.hist, CacheCall("delete", key, DefaultData)),
                            r.removed, DefaultData)
    /\ UNCHANGED <<calls, last, now, ticks, nfetch, nstore, win, lastObs, lastSet,
                   fault, stream, decision, canon>>

DoGet == \E k \in Keys : GetOp(k)

DoSet == \E k \in Keys, v \in CacheValues : SetOp(k, v)

DoDelete == \E k \in Keys : DeleteOp(k)

NextCache == DoGet \/ DoSet \/ DoDelete

SpecCache == Init /\ [][NextCache]_vars

\* one call on an empty cache, for every request and every behaviour of the
\* origin
FetchRequests ==
    {<<op, t, <<"B">>>> : op \in {"GetRobots", "IsAllowed"}, t \in Targets \cup BadTargets}

DoLookupFirst ==
    /\ nfetch = 0
    /\ \A c \in Callers : ~InFlight(c)
    /\ \E c \in Callers, r \in FetchRequests : Lookup(c, r[1], r[2], r[3])

DoFetchAny == \E c \in Callers, b \in OriginBehaviours : Fetch(c, b)

NextFetch == DoLookupFirst \/ DoFetchAny \/ DoStore

SpecFetch == Init /\ [][NextFetch]_vars

\* the read of one 2xx body by fetch, for every body and every way it is cut
\* into chunks
InitStream ==
    /\ cache = [k \in Keys |-> NoEntry]
    /\ calls = [c \in Callers |-> IdleCall]
    /\ last = IdleCall
    /\ now = 0
    /\ ticks = 0
    /\ nfetch = 0
    /\ nstore = 0
    /\ win = [k \in Keys |-> NoWindow]
    /\ lastObs = [k \in Keys |-> NoObs]
    /\ lastSet = [k \in Keys |-> NoEntry]
    /\ fault = "none"
    /\ canon = NoCanon
    /\ kv = NoOp
    /\ decision = NoDecision
    /\ \E chunks \in ChunkSeqs, reported \in BOOLEAN :
          stream = Stream("reading", chunks,
                          IF reported THEN Len(Flatten(chunks)) ELSE 0,
                          0, <<>>, 0, 0, FALSE, DefaultData)

Read ==
    /\ stream.pc = "reading"
    /\ stream' = ReadStep(stream)
    /\ UNCHANGED <<cache, calls, last, now, ticks, nfetch, nstore, win, lastObs, lastSet,
                   fault, decision, canon, kv>>

NextStream == Read

SpecStream == InitStream /\ [][NextStream]_vars

\* ------------------------------------------------------------------------
\* Properties
\* ------------------------------------------------------------------------
Answered == last.pc = "done" /\ last.status = "OK"

AllUserAgents == UserAgents \cup {<<>>, <<"b">>, <<"x", "B">>}

ValidTargets == {t \in Targets : extract_robots_url(t).ok}

\* C1: an IsAllowed call whose snapshot, fetched or cached, is Unreachable
\* answers allowed = false; the same holds of every cached Unreachable
\* snapshot for every user agent and every path
FailClosed ==
    /\ (Answered /\ last.op = "IsAllowed" /\ last.data.access_result = "Unreachable")
          => ~last.allowed
    /\ \A k \in Keys :
          (cache[k].present /\ cache[k].data.access_result = "Unreachable")
             => \A t \in ValidTargets, ua \in AllUserAgents :
                   ~AllowedFor(cache[k].data, t, ua)

FailClosedWitness ==
    /\ Answered /\ last.op = "IsAllowed" /\ last.hit
    /\ last.data.access_result = "Unreachable"
    /\ ~last.allowed

\* C2: a snapshot that is Unavailable has no groups, and IsAllowed answers
\* allowed = true on it for every user agent and every path, on the first
\* call and on every later hit
UnavailableAllowsAll ==
    /\ (Answered /\ last.data.access_result = "Unavailable")
          => /\ last.data.groups = <<>>
             /\ last.op = "IsAllowed" => last.allowed
    /\ \A k \in Keys :
          (cache[k].present /\ cache[k].data.access_result = "Unavailable")
             => /\ cache[k].data.groups = <<>>
                /\ \A t \in ValidTargets, ua \in AllUserAgents :
                      AllowedFor(cache[k].data, t, ua)

UnavailableAllowsAllWitness ==
    /\ Answered /\ last.op = "IsAllowed" /\ last.hit
    /\ last.data.access_result = "Unavailable"
    /\ last.data.http_status_code = 404
    /\ last.allowed

\* C3: with sequential calls, in a TTL window of a key the origin is contacted
\* once, and a call for the URL of the call that opened the window, looked up
\* while the window is open, is a hit that returns the very snapshot the
\* opening call returned
CacheHitEquivalence ==
    /\ \A k \in Keys : win[k].open => win[k].contacts = 1
    /\ (last.pc = "done" /\ last.inWin /\ last.target = win[last.key].first.target_url)
          => /\ last.hit
             /\ last.status = "OK"
             /\ last.data = win[last.key].first

CacheHitEquivalenceWitness ==
    /\ Answered /\ last.hit /\ last.inWin
    /\ last.target = win[last.key].first.target_url
    /\ last.data = win[last.key].first
    /\ last.data.access_result = "Success"
    /\ now = win[last.key].start + TTL - 1

\* C4: with sequential calls, when the miss that opens a TTL window ends with
\* a 404, a 500 or a timeout, the snapshot is Unavailable for the 404 and
\* Unreachable for the 500 and the timeout, the origin is contacted once in
\* the window, and every call in the window is a hit with that access_result
NegativeCaching ==
    /\ (Answered /\ ~last.hit /\ last.beh.chain = 0)
          => /\ (last.beh.transport = "ok" /\ last.beh.status = 404)
                    => last.data.access_result = "Unavailable"
             /\ (last.beh.transport = "ok" /\ last.beh.status = 500)
                    => last.data.access_result = "Unreachable"
             /\ last.beh.transport = "timeout"
                    => last.data.access_result = "Unreachable"
    /\ \A k \in Keys :
          (win[k].open /\ win[k].first.access_result # "Success") => win[k].contacts = 1
    /\ (last.pc = "done" /\ last.inWin /\ win[last.key].first.access_result # "Success")
          => /\ last.hit
             /\ last.status = "OK"
             /\ last.data.access_result = win[last.key].first.access_result

NegativeCachingWitness ==
    /\ Answered /\ last.hit /\ last.inWin
    /\ last.data.access_result = "Unreachable"
    /\ last.data.http_status_code = 0
    /\ win[last.key].contacts = 1
    /\ now > win[last.key].start

\* C5: with concurrent calls, a call that missed is answered with the
\* snapshot of its own fetch, also when another call has stored a snapshot
\* for the key in the meantime, and the cache entry of a key is the snapshot
\* of the cache set that ran last
LastWriterWins ==
    /\ (Answered /\ ~last.hit)
          => /\ last.data = Normalize(fetch(last.target, last.beh), last.target, last.key).data
             /\ last.data.target_url = last.target
             /\ cache[last.key].fid = last.fid
    /\ \A k \in Keys : lastSet[k].present => cache[k] = lastSet[k]

\* two calls missed on the key; the other one stored first, this one is
\* answered with its own, different snapshot, which is now the entry
LastWriterWinsWitness ==
    /\ Answered /\ ~last.hit /\ ~last.inWin
    /\ LiveWindow(last.key)
    /\ win[last.key].sid < last.sid
    /\ win[last.key].first.access_result # last.data.access_result
    /\ cache[last.key].data = last.data

\* C6 as stated, snapshots ordered by the time of their fetch: a hit on a key
\* never sees a snapshot fetched before the one the previous hit saw, while
\* that one has not expired
NeverOlderSnapshot ==
    (Answered /\ last.hit /\ last.prev.fid > 0 /\ now < last.prev.exp)
       => last.fid >= last.prev.fid

\* C6 amended, snapshots ordered by their cache set: a hit sees the snapshot
\* of the latest set on the key, so never one set before the one the previous
\* hit saw
NeverEarlierStored ==
    /\ (Answered /\ last.hit) => last.sid = lastSet[last.key].sid
    /\ (Answered /\ last.hit /\ last.prev.sid > 0 /\ now < last.prev.exp)
          => last.sid >= last.prev.sid

\* a hit that sees a snapshot set later, and fetched earlier, than the one
\* the previous hit saw
NeverEarlierStoredWitness ==
    /\ Answered /\ last.hit
    /\ last.prev.sid > 0 /\ now < last.prev.exp
    /\ last.sid > last.prev.sid
    /\ last.fid < last.prev.fid

\* C7: the latest set on a key, made at time t, is what get returns at every
\* time before t + 24 h, whatever the access_result of the snapshot
EntryLivesTtl ==
    \A k \in Keys :
       (lastSet[k].present /\ now < lastSet[k].at + 24)
          => CacheGet(cache, k, now) = lastSet[k]

EntryLivesTtlWitness ==
    /\ Answered /\ last.hit
    /\ last.data.access_result = "Unreachable"
    /\ now = lastSet[last.key].at + 23
    /\ CacheGet(cache, last.key, now).data = last.data

RedirectLimitFive ==
    (Answered /\ ~last.hit /\ last.beh.transport = "ok")
       => /\ last.beh.chain >= 6
               => /\ last.fres.tag # "Ok"
                  /\ last.data.access_result = "Unreachable"
                  /\ cache[last.key].data.access_result = "Unreachable"
                  /\ last.op = "IsAllowed" => ~last.allowed
          /\ (last.beh.chain <= 5 /\ last.beh.status = 200 /\ ~last.beh.streamError)
               => last.data.access_result = "Success"

StatusInRange(data) ==
    /\ data.access_result = "Success"
          => (data.http_status_code >= 200 /\ data.http_status_code <= 299)
    /\ data.access_result = "Unavailable"
          => (data.http_status_code >= 400 /\ data.http_status_code <= 499)
    /\ data.access_result = "Unreachable"
          => \/ (data.http_status_code >= 500 /\ data.http_status_code <= 599)
             \/ data.http_status_code = 0

\* C10 as stated: every snapshot returned or stored has its http_status_code
\* in the range of its access_result
StatusMatchesAccessResult ==
    /\ Answered => StatusInRange(last.data)
    /\ \A k \in Keys : cache[k].present => StatusInRange(cache[k].data)

\* the call of the latest step, if it got as far as the fetch
Fetched == last.pc = "done" /\ last.beh.transport # "none"

Refused(t) == ~t.parses \/ t.scheme \notin {"http", "https"} \/ t.host = ""

\* C12: a call for a target URL that fails canonicalization is answered
\* InvalidArgument, never starts a fetch, and leaves the cache and the record
\* of what was read from it as they were
InvalidUrlRejected ==
    /\ [](/\ (last.pc = "done" /\ Refused(last.target)) => last.status = "InvalidArgument"
          /\ \A c \in Callers : InFlight(c) => ~Refused(calls[c].target))
    /\ [][(last'.pc = "done" /\ Refused(last'.target))
             => UNCHANGED <<cache, calls, nfetch, nstore, lastSet, lastObs>>]_vars

InvalidUrlRejectedWitness ==
    /\ last.pc = "done" /\ last.op = "IsAllowed" /\ last.target.scheme = "ftp"
    /\ last.status = "InvalidArgument"
    /\ \A k \in Keys : ~cache[k].present

\* C13: a call whose fetch failed with ParseError, and a call whose cache.get
\* failed, are answered Internal and leave the cache as it was; the call
\* whose cache.get failed starts no fetch
InternalErrorsNotCached ==
    /\ [](/\ (last.pc = "done" /\ last.fres.tag = "ParseError") => last.status = "Internal"
          /\ fault = "get" => (last.pc = "done" /\ last.status = "Internal"))
    /\ [][/\ (last'.pc = "done" /\ last'.fres.tag = "ParseError") => cache' = cache
          /\ fault' = "get" => (cache' = cache /\ calls' = calls /\ nfetch' = nfetch)]_vars

InternalErrorsNotCachedWitness ==
    /\ fault = "get"
    /\ last.status = "Internal"
    /\ cache[last.key].present /\ now < cache[last.key].at + 24
    /\ nfetch = 1

\* C14: a call whose cache.set failed is answered OK with the snapshot of its
\* fetch, Success or normalized, and the key has no entry to read; a call
\* looked up after it, nothing having been stored for the key since, is a miss
SetFailureSwallowed ==
    /\ fault = "set"
          => /\ Answered /\ ~last.hit
             /\ last.data = Normalize(last.fres, last.target, last.key).data
             /\ last.data.robots_txt_url = last.key
             /\ ~CacheGet(cache, last.key, now).present
    /\ (last.pc = "done" /\ last.inWin /\ lastSet[last.key].sid < win[last.key].sid)
          => ~last.hit

SetFailureSwallowedWitness ==
    /\ Answered /\ ~last.hit /\ last.inWin
    /\ last.data.access_result = "Success"
    /\ fault = "none"
    /\ canon = NoCanon
    /\ kv = NoOp
    /\ win[last.key].first.access_result = "Unreachable"
    /\ cache[last.key].data = last.data

\* the body the origin serves, and the number of the chunk that crosses the
\* cap (the number of chunks if none does)
Origin == Flatten(stream.chunks)

FirstCrossing ==
    LET upTo(i) == Len(Flatten(SubSeq(stream.chunks, 1, i)))
        over == {i \in DOMAIN stream.chunks : upTo(i) > MAX_ROBOTS_TXT_SIZE}
    IN  IF over = {} THEN Len(stream.chunks)
        ELSE CHOOSE i \in over : \A j \in over : i <= j

\* the body is the decoding of the first bytes of the origin's body, the cap
\* at most
DecodedPrefix(body) ==
    \E n \in 0..MAX_ROBOTS_TXT_SIZE :
        n <= Len(Origin) /\ body = from_utf8_lossy(SubSeq(Origin, 1, n))

\* C15 as stated: when the body is longer than the cap, the body parsed ends
\* with a newline, or is empty if there is no newline within the cap, and
\* truncated is true
TruncationEndsOnNewline ==
    (stream.pc \in {"parsed", "panicked"} /\ Len(Origin) > MAX_ROBOTS_TXT_SIZE)
       => /\ stream.pc = "parsed"
          /\ stream.data.truncated
          /\ IF \E i \in 1..MAX_ROBOTS_TXT_SIZE : Origin[i] = "\n"
             THEN stream.body # <<>> /\ stream.body[Len(stream.body)] = "\n"
             ELSE stream.body = <<>>

\* C16: at every step of the read the raw bytes accumulated are the cap at
\* most, in the count and in the body, and the chunk that would cross the cap
\* is the last one taken from the stream
ReadBoundedByCap ==
    stream.pc # "idle"
       => /\ stream.total_bytes <= MAX_ROBOTS_TXT_SIZE
          /\ stream.nread <= FirstCrossing
          /\ stream.pc # "panicked" => DecodedPrefix(stream.body)
          /\ stream.truncated
                => (stream.pc # "reading" /\ stream.nread = FirstCrossing)
          /\ (stream.pc = "parsed" /\ Len(Origin) > MAX_ROBOTS_TXT_SIZE)
                => stream.truncated

ReadBoundedByCapWitness ==
    /\ stream.pc = "parsed" /\ stream.truncated
    /\ stream.total_bytes = MAX_ROBOTS_TXT_SIZE
    /\ stream.nread < Len(stream.chunks)
    /\ stream.body # <<>>

\* C17: the snapshot of a body has truncated = true exactly when the body is
\* longer than the cap, a body of up to the cap being parsed whole; groups are
\* those parsed from the first bytes of the body that were kept, and
\* content_length_bytes is what the origin reported
TruncatedIffOverCap ==
    stream.pc = "parsed"
       => /\ stream.data.access_result = "Success"
          /\ stream.data.truncated <=> Len(Origin) > MAX_ROBOTS_TXT_SIZE
          /\ ~stream.data.truncated
                => stream.data.groups = ParseGroups(from_utf8_lossy(Origin))
          /\ \E n \in 0..MAX_ROBOTS_TXT_SIZE :
                /\ n <= Len(Origin)
                /\ stream.data.groups = ParseGroups(from_utf8_lossy(SubSeq(Origin, 1, n)))
          /\ stream.data.sitemaps = <<>>
          /\ stream.data.content_length_bytes = stream.content_length

TruncatedIffOverCapWitness ==
    /\ stream.pc = "parsed"
    /\ Len(Origin) = MAX_ROBOTS_TXT_SIZE
    /\ ~stream.data.truncated
    /\ Len(stream.data.groups) = 2
    /\ stream.data.content_length_bytes = MAX_ROBOTS_TXT_SIZE

\* C18 as stated: a body longer than the cap without any newline gives a
\* Success snapshot with truncated = true, a body parsed of the cap at most
\* and at least one group
NoNewlineKeepsGroup ==
    (stream.pc \in {"parsed", "panicked"} /\ Len(Origin) > MAX_ROBOTS_TXT_SIZE
     /\ \A i \in DOMAIN Origin : Origin[i] = "a")
       => /\ stream.pc = "parsed"
          /\ stream.data.access_result = "Success"
          /\ stream.data.truncated
          /\ Len(stream.body) <= MAX_ROBOTS_TXT_SIZE
          /\ stream.data.groups # <<>>

\* the rules of the groups selected for the decision that match its path
MatchingPool ==
    LET sel == GroupsToCheck(decision.groups, decision.user_agent)
        pool == UNION {{decision.groups[g].rules[r] : r \in DOMAIN decision.groups[g].rules} :
                       g \in sel}
    IN  {ru \in pool : path_matches_rfc9309(decision.path, ru.path_pattern)}

\* C19: is_allowed is true when no rule of the selected groups matches the
\* path, and otherwise exactly when an Allow is among the longest matching
\* rules of all the selected groups together
LongestMatchDecides ==
    decision.pc = "answered"
       => (decision.allowed <=>
             \/ MatchingPool = {}
             \/ \E a \in MatchingPool :
                   /\ a.rule_type = RuleAllow
                   /\ \A m \in MatchingPool : Len(m.path_pattern) <= Len(a.path_pattern))

LongestMatchDecidesWitness ==
    /\ decision.pc = "answered" /\ decision.allowed
    /\ decision.user_agent = <<"B", "c">> /\ decision.path = <<"/", "x">>
    /\ decision.groups[1].rules =
          <<[rule_type |-> RuleDisallow, path_pattern |-> <<"/", "x">>]>>
    /\ decision.groups[2].rules =
          <<[rule_type |-> RuleAllow, path_pattern |-> <<"/", "*">>]>>

\* C20 as stated: the anchoring $ is not counted in the length of a pattern:
\* when a rule P$ and an Allow P both match and no matching rule is longer
\* than P, the $ left out, the path is allowed
AnchorNotCounted ==
    (/\ decision.pc = "answered"
     /\ \E d \in MatchingPool, a \in MatchingPool :
           /\ a.rule_type = RuleAllow
           /\ d.path_pattern = a.path_pattern \o <<"$">>
           /\ \A m \in MatchingPool :
                 PatternLenWithoutAnchor(m.path_pattern) <= Len(a.path_pattern))
       => decision.allowed

\* C20 as amended: the anchoring $ is counted like any other character, and so
\* is *: a matching Disallow P$ outranks a matching Allow P, and the path is
\* disallowed unless an Allow at least as long as P$ matches too; a matching
\* Allow with a * that no matching rule exceeds in length allows the path
AnchorCounted ==
    decision.pc = "answered"
       => /\ (\E d \in MatchingPool, a \in MatchingPool :
                 /\ a.rule_type = RuleAllow /\ d.rule_type = RuleDisallow
                 /\ d.path_pattern = a.path_pattern \o <<"$">>
                 /\ \A m \in MatchingPool :
                       m.rule_type = RuleAllow => Len(m.path_pattern) <= Len(a.path_pattern))
                => ~decision.allowed
          /\ (\E a \in MatchingPool :
                 /\ a.rule_type = RuleAllow
                 /\ \E i \in DOMAIN a.path_pattern : a.path_pattern[i] = "*"
                 /\ \A m \in MatchingPool : Len(m.path_pattern) <= Len(a.path_pattern))
                => decision.allowed

AnchorCountedWitness ==
    /\ decision.pc = "answered" /\ ~decision.allowed
    /\ decision.user_agent = <<"B">> /\ decision.path = <<"/", "x">>
    /\ decision.groups[1].rules =
          <<[rule_type |-> RuleDisallow, path_pattern |-> <<"/", "x", "$">>],
            [rule_type |-> RuleAllow, path_pattern |-> <<"/", "x">>]>>

\* token, letter case aside, occurs in user_agent (or equals it)
FoldedSubstring(token, user_agent) ==
    \E i \in 0..(Len(user_agent) - Len(token)) :
        \A j \in 1..Len(token) : Lower(user_agent[i + j]) = Lower(token[j])

\* the groups of the decision with a token matching its user agent
MatchingGroups ==
    {g \in DOMAIN decision.groups :
        \E u \in DOMAIN decision.groups[g].user_agents :
            FoldedSubstring(decision.groups[g].user_agents[u], decision.user_agent)}

\* the groups of the decision that carry the token *
WildcardGroups ==
    {g \in DOMAIN decision.groups :
        \E u \in DOMAIN decision.groups[g].user_agents :
            decision.groups[g].user_agents[u] = <<"*">>}

UserAgentMatchFoldsCase ==
    decision.pc = "answered"
       => \A g \in DOMAIN decision.groups :
             g \notin WildcardGroups
                => (g \in decision.groups_to_check <=> g \in MatchingGroups)

UserAgentMatchFoldsCaseWitness ==
    /\ decision.pc = "answered" /\ ~decision.allowed
    /\ decision.user_agent = <<"b", "C">>
    /\ Len(decision.groups) = 1
    /\ decision.groups[1].user_agents = << <<"B", "c">> >>
    /\ decision.groups_to_check = {1}

\* the pattern of the only rule of the decision's policy, with and without
\* its anchoring $
ThePattern == decision.groups[1].rules[1].path_pattern

Anchored == Len(ThePattern) > 0 /\ ThePattern[Len(ThePattern)] = "$"

PatternBody ==
    IF Anchored THEN SubSeq(ThePattern, 1, Len(ThePattern) - 1) ELSE ThePattern

HasWildcard(pattern) == \E i \in DOMAIN pattern : pattern[i] = "*"

\* the only rule of the policy, a Disallow, matched the path
RuleMatched == ~decision.allowed

\* s is the literal characters of pattern in order, each * replaced by a
\* possibly empty run of characters
RECURSIVE Glob(_, _)
Glob(pattern, s) ==
    IF pattern = <<>> THEN s = <<>>
    ELSE IF Head(pattern) = "*"
         THEN Glob(Tail(pattern), s) \/ (s # <<>> /\ Glob(pattern, Tail(s)))
         ELSE s # <<>> /\ Head(s) = Head(pattern) /\ Glob(Tail(pattern), Tail(s))

\* C23: a pattern without * matches a path exactly when the path starts with
\* it, and with a trailing $ exactly when the path equals the pattern without
\* the $
LiteralPatternMatch ==
    (decision.pc = "answered" /\ ~HasWildcard(PatternBody))
       => (RuleMatched <=>
             IF Anchored THEN decision.path = PatternBody
             ELSE /\ Len(PatternBody) <= Len(decision.path)
                  /\ \A i \in DOMAIN PatternBody : decision.path[i] = PatternBody[i])

LiteralPatternMatchWitness ==
    /\ decision.pc = "answered" /\ decision.allowed
    /\ ThePattern = <<"/", "a", "$">>
    /\ decision.path = <<"/", "a", "/">>

\* C24: a pattern with * and no trailing $ matches a path exactly when some
\* prefix of the path is the literal segments in order with a possibly empty
\* run for each *
WildcardPrefixMatch ==
    (decision.pc = "answered" /\ HasWildcard(PatternBody) /\ ~Anchored)
       => (RuleMatched <=>
             \E n \in 0..Len(decision.path) :
                 Glob(PatternBody, SubSeq(decision.path, 1, n)))

WildcardPrefixMatchWitness ==
    /\ decision.pc = "answered" /\ ~decision.allowed
    /\ ThePattern = <<"*", "*", "a">>
    /\ decision.path = <<"/", "a", "/">>

\* C25: a pattern with * and a trailing $ matches a path exactly when the
\* whole path is the literal segments in order with a possibly empty run for
\* each *, nothing left over and no character used by two segments
WildcardAnchoredMatch ==
    (decision.pc = "answered" /\ HasWildcard(PatternBody) /\ Anchored)
       => (RuleMatched <=> Glob(PatternBody, decision.path))

\* C26: a policy whose only rule is a Disallow with an empty pattern allows
\* every path
EmptyPatternMatchesNothing ==
    (decision.pc = "answered" /\ ThePattern = <<>>) => decision.allowed

\* C27: the robots URL of a valid target is a valid target, and its robots
\* URL is itself
CanonicalIdempotence ==
    (canon.pc = "twice" /\ canon.first.ok)
       => /\ canon.second.ok
          /\ canon.second.text = canon.first.text

CanonicalIdempotenceWitness ==
    /\ canon.pc = "twice"
    /\ canon.text = <<"HTTP", "://", "A", ":", "80", "/", "x", "?", "q">>
    /\ canon.second = [ok |-> TRUE, text |-> <<"http", "://", "a", "/", "r">>]

\* the target text of canon writes a port, and the text of its scheme's
\* default port
PortWritten == Len(canon.text) >= 5 /\ canon.text[4] = ":"

SchemeDefaultText == IF canon.text[1] \in {"http", "HTTP"} THEN "80" ELSE "443"

\* C28: the robots URL carries a port exactly when the target writes a port
\* other than the default of its own scheme, and then it is the port written;
\* a target that writes its scheme's default port has the robots URL of the
\* same target without the port
PortElision ==
    (canon.pc \in {"once", "twice"} /\ canon.first.ok)
       => LET carries == Len(canon.first.text) >= 5 /\ canon.first.text[4] = ":"
          IN  /\ carries <=> (PortWritten /\ canon.text[5] # SchemeDefaultText)
              /\ carries => canon.first.text[5] = canon.text[5]
              /\ (PortWritten /\ canon.text[5] = SchemeDefaultText)
                    => canon.first.text =
                          robots_url_for(SubSeq(canon.text, 1, 3)
                                         \o SubSeq(canon.text, 6, Len(canon.text))).text

PortElisionWitness ==
    /\ canon.pc = "once"
    /\ canon.text = <<"http", "://", "a", ":", "443", "/", "x">>
    /\ canon.first = [ok |-> TRUE, text |-> <<"http", "://", "a", ":", "443", "/", "r">>]

\* the port a URL connects to: the one written, else the scheme's default
EffectivePort(u) == IF u.port = -1 THEN DefaultPort(u.scheme) ELSE u.port

SameOrigin(u, v) ==
    /\ u.scheme = v.scheme
    /\ u.host = v.host
    /\ EffectivePort(u) = EffectivePort(v)

\* the valid targets among the request URLs and the parsed target texts
OriginTargets ==
    {t \in Targets \cup {ParseUrl(x) : x \in CanonTexts} : extract_robots_url(t).ok}

\* two valid targets have the same cache key exactly when they have the same
\* scheme, host and effective port
OriginDecidesKey ==
    \A t1 \in OriginTargets, t2 \in OriginTargets :
        extract_robots_url(t1).url = extract_robots_url(t2).url <=> SameOrigin(t1, t2)

\* C29: targets share a cache key exactly when they share scheme, host and
\* effective port; a fetch starts only when the cache holds no live entry of
\* the target's origin; a hit returns the live entry of the target's own
\* origin without a fetch and without a write; and the cache changes only at
\* the key of the origin of the call that stores
SharedByOrigin ==
    [][/\ OriginDecidesKey
       /\ \A c \in Callers :
             (calls[c].pc # "fetching" /\ calls'[c].pc = "fetching")
                => \A k \in Keys :
                      SameOrigin(k, calls'[c].target) => ~CacheGet(cache, k, now).present
       /\ (last'.pc = "done" /\ last'.hit)
             => /\ nfetch' = nfetch
                /\ cache' = cache
                /\ \E k \in Keys :
                      /\ SameOrigin(k, last'.target)
                      /\ CacheGet(cache, k, now).present
                      /\ CacheGet(cache, k, now).data = last'.data
       /\ \A k \in Keys :
             cache'[k] # cache[k]
                => \E c \in Callers :
                      calls[c].pc = "fetched" /\ SameOrigin(k, calls[c].target)]_vars

SharedByOriginWitness ==
    /\ last.pc = "done" /\ last.hit /\ nfetch = 2
    /\ last.target = Url(TRUE, "http", "a", 80, <<"/", "x">>, TRUE, <<"q">>)
    /\ last.data.target_url = Url(TRUE, "http", "a", -1, <<"/">>, FALSE, <<>>)
    /\ cache[RobotsUrl("http", "a", 8080)].present
    /\ cache[RobotsUrl("http", "a", 8080)].data.target_url.port = 8080

\* the index of the latest set or delete on key among the first m calls made
\* on the cache, 0 when there is none
LatestWrite(key, m) ==
    LET W == {i \in 1..m : kv.hist[i].key = key /\ kv.hist[i].kind \in {"set", "delete"}}
    IN  IF W = {} THEN 0 ELSE CHOOSE i \in W : \A j \in W : j <= i

\* after the first m calls key holds a value: its latest write is a set
Held(key, m) == LatestWrite(key, m) # 0 /\ kv.hist[LatestWrite(key, m)].kind = "set"

\* C30: within the time-to-live a get returns the value of the latest set on
\* its key when no delete on the key followed it, and None otherwise; a delete
\* returns true exactly when the key held a value; and after every call each
\* key holds what its own latest set or delete left
CacheOperations ==
    LET n == Len(kv.hist)
    IN  n > 0
           => /\ kv.hist[n].kind = "get"
                    => /\ kv.found <=> Held(kv.hist[n].key, n - 1)
                       /\ kv.found
                             => kv.value = kv.hist[LatestWrite(kv.hist[n].key, n - 1)].value
              /\ kv.hist[n].kind = "delete"
                    => (kv.found <=> Held(kv.hist[n].key, n - 1))
              /\ \A k \in Keys :
                    /\ CacheGet(cache, k, now).present <=> Held(k, n)
                    /\ Held(k, n)
                          => CacheGet(cache, k, now).data = kv.hist[LatestWrite(k, n)].value

CacheOperationsWitness ==
    /\ Len(kv.hist) = 3
    /\ kv.hist[1].kind = "set" /\ kv.hist[1].key = RobotsUrl("http", "a", -1)
    /\ kv.hist[2].kind = "set" /\ kv.hist[2].key = RobotsUrl("http", "a", 8080)
    /\ kv.hist[3].kind = "delete" /\ kv.hist[3].key = RobotsUrl("http", "a", 8080)
    /\ kv.found
    /\ cache[RobotsUrl("http", "a", -1)].present
    /\ ~cache[RobotsUrl("http", "a", 8080)].present

\* the characters of the target text of canon after the host and the port, up
\* to the fragment
RECURSIVE UpToFragment(_)
UpToFragment(s) ==
    IF s = <<>> \/ Head(s) = "#" THEN <<>> ELSE <<Head(s)>> \o UpToFragment(Tail(s))

WrittenPath ==
    LET from == IF Len(canon.text) >= 5 /\ canon.text[4] = ":" THEN 6 ELSE 4
        w == UpToFragment(SubSeq(canon.text, from, Len(canon.text)))
    IN  IF w = <<>> \/ Head(w) = "?" THEN <<"/">> \o w ELSE w

\* C31: the path is_allowed matches is the path of the target followed by ?
\* and the query when the target has a query, without the fragment; under
\* Disallow: /x? the target /x with a query is denied and the target /x
\* without a query is allowed
PathWithQuery ==
    decision.pc = "answered"
       => /\ decision.path = WrittenPath
          /\ \A i \in DOMAIN decision.path : decision.path[i] # "#"
          /\ ThePattern = <<"/", "x", "?">>
                => (~decision.allowed
                      <=> /\ Len(WrittenPath) >= 3
                          /\ SubSeq(WrittenPath, 1, 3) = <<"/", "x", "?">>)

PathWithQueryWitness ==
    /\ decision.pc = "answered" /\ ~decision.allowed
    /\ ThePattern = <<"/", "x", "?">>
    /\ canon.text = <<"http", "://", "a", "/", "x", "?", "q", "#", "f">>
    /\ decision.path = <<"/", "x", "?", "q">>

\* C32: every entry of the cache lies under the key that is its snapshot's
\* robots_txt_url, which is the canonical robots URL of the snapshot's
\* target_url; the snapshot a miss returns, from the fetcher or from one of
\* the three error arms, is the entry just written under that key
StoredUnderCanonicalKey ==
    /\ \A k \in Keys :
          cache[k].present
             => /\ cache[k].data.robots_txt_url = k
                /\ extract_robots_url(cache[k].data.target_url) = [ok |-> TRUE, url |-> k]
    /\ (Answered /\ ~last.hit)
          => /\ extract_robots_url(last.data.target_url)
                   = [ok |-> TRUE, url |-> last.data.robots_txt_url]
             /\ cache[last.data.robots_txt_url].present
             /\ cache[last.data.robots_txt_url].data = last.data

StoredUnderCanonicalKeyWitness ==
    /\ Answered /\ ~last.hit
    /\ last.data.access_result = "Unreachable"
    /\ last.target = Url(TRUE, "http", "a", 80, <<"/", "x">>, TRUE, <<"q">>)
    /\ cache[RobotsUrl("http", "a", -1)].present
    /\ cache[RobotsUrl("http", "a", -1)].data.target_url = last.target

\* C33: the snapshot GetRobots returns carries the URL of the request it
\* answers as target_url, on a miss and on a hit
TargetUrlOfRequest ==
    (Answered /\ last.op = "GetRobots") => last.data.target_url = last.target

\* concurrent calls that are answered or cancelled, the clock standing still
NextCancel == DoLookup \/ DoFetch \/ DoStore \/ DoCancel

SpecCancel == Init /\ [][NextCancel]_vars

\* C34: a call leaves the cache as it is from its lookup that missed to the
\* end of its fetch, and the step that cancels it while the fetch is in
\* flight leaves every entry as it was and ends the call
CancelLeavesCache ==
    [][/\ \A c \in Callers :
             (calls[c].pc # "fetching" /\ calls'[c].pc = "fetching") => cache' = cache
       /\ last'.pc = "cancelled"
             => /\ cache' = cache
                /\ \A c \in Callers :
                      calls[c].pc = "fetching" /\ calls'[c].pc # "fetching"
                         => calls'[c] = IdleCall]_vars

\* the call is cancelled after another call stored an entry for its key
CancelLeavesCacheWitness ==
    /\ last.pc = "cancelled"
    /\ ~last.hit
    /\ cache[last.key].present
    /\ cache[last.key].data.access_result = "Success"

\* calls one after the other to origins that answer 200 or 404, while time
\* passes
NextExpiry == DoLookupSeq \/ DoFetch \/ DoStore \/ Tick

SpecExpiry == Init /\ [][NextExpiry]_vars

\* C35: a hit leaves the cache as it is and happens only before the entry's
\* time of writing plus 24 h; no step removes an entry; an entry changes only
\* by the store of a call that missed, and is then written at the time of
\* the store; a lookup of a key whose entry is live does not go to the
\* origin
HitNeverWrites ==
    [][/\ (last'.pc = "done" /\ last'.hit)
             => /\ cache' = cache
                /\ nfetch' = nfetch
                /\ now < cache[last'.key].at + TTL
       /\ \A k \in Keys : cache[k].present => cache'[k].present
       /\ \A k \in Keys :
             cache'[k] # cache[k]
                => /\ cache'[k].at = now
                   /\ \E c \in Callers :
                         calls[c].pc = "fetched" /\ ~calls[c].hit /\ calls[c].key = k
       /\ \A c \in Callers :
             (calls[c].pc # "fetching" /\ calls'[c].pc = "fetching")
                => (~cache[calls'[c].key].present
                    \/ now >= cache[calls'[c].key].at + TTL)]_vars

\* an entry written at 0 and read at 23 h is expired at 24 h: the call then
\* misses and stores the snapshot of a second fetch
HitNeverWritesWitness ==
    /\ Answered /\ ~last.hit
    /\ now = TTL
    /\ lastObs[last.key].fid = 1
    /\ cache[last.key].fid = 2
    /\ cache[last.key].at = TTL

\* C36: the body parsed is the decoding of the first n bytes of the origin's
\* body, and when n is less than the length of the origin's body the cut is
\* at offset 0 or immediately before or after a newline
CutAtLineBoundary ==
    stream.pc \in {"parsed", "panicked"}
       => /\ stream.pc = "parsed"
          /\ \E n \in 0..Len(Origin) :
                /\ stream.body = from_utf8_lossy(SubSeq(Origin, 1, n))
                /\ \/ n = Len(Origin)
                   \/ n = 0
                   \/ Origin[n] = "\n"
                   \/ Origin[n + 1] = "\n"

\* the permutations of 1..n, and a sequence read through one
Perms(n) == {f \in [1..n -> 1..n] : \A i \in 1..n, j \in 1..n : f[i] = f[j] => i = j}

Permuted(s, f) == [i \in 1..Len(s) |-> s[f[i]]]

\* the policies that are the decision's policy with its groups permuted and
\* the rules inside each group permuted
Reorderings ==
    LET groups == decision.groups
        RulePerms ==
            {rp \in [DOMAIN groups -> UNION {Perms(n) : n \in 0..MaxRules}] :
                \A g \in DOMAIN groups : DOMAIN rp[g] = DOMAIN groups[g].rules}
    IN  {Permuted([g \in DOMAIN groups |->
                     [groups[g] EXCEPT !.rules = Permuted(groups[g].rules, rp[g])]], gp) :
            gp \in Perms(Len(groups)), rp \in RulePerms}

\* C37: the decision is the same for every order of the groups and every
\* order of the rules inside each group
OrderIrrelevant ==
    decision.pc = "answered"
       => \A reordered \in Reorderings :
             is_allowed(reordered, decision.user_agent, decision.path) = decision.allowed

OrderIrrelevantWitness ==
    /\ decision.pc = "answered" /\ decision.allowed
    /\ decision.user_agent = <<"B", "c">> /\ decision.path = <<"/", "x">>
    /\ decision.groups[1].rules =
          <<[rule_type |-> RuleDisallow, path_pattern |-> <<"/">>],
            [rule_type |-> RuleAllow, path_pattern |-> <<"/", "x">>]>>
    /\ decision.groups[2].rules =
          <<[rule_type |-> RuleDisallow, path_pattern |-> <<"/">>]>>
    /\ Cardinality(Reorderings) = 4

\* ------------------------------------------------------------------------
\* rules of every rule_type: a policy of one * group with up to MaxRules
\* rules whose rule_type is 0 (unspecified), Allow, Disallow or 3 (no
\* RuleType), over plain, anchored and wildcard patterns
\* ------------------------------------------------------------------------
TypePatterns == { <<"/">>, <<"/", "x">>, <<"/", "*", "y">>, <<"/", "*", "x", "$">> }

TypeRules ==
    {[rule_type |-> ty, path_pattern |-> pat] : ty \in 0..3, pat \in TypePatterns}

TypePolicies ==
    { << [user_agents |-> << <<"*">> >>, rules |-> r] >> :
        r \in UNION {[1..n -> TypeRules] : n \in 0..MaxRules} }

InitTypes ==
    /\ cache = [k \in Keys |-> NoEntry]
    /\ calls = [c \in Callers |-> IdleCall]
    /\ last = IdleCall
    /\ now = 0
    /\ ticks = 0
    /\ nfetch = 0
    /\ nstore = 0
    /\ win = [k \in Keys |-> NoWindow]
    /\ lastObs = [k \in Keys |-> NoObs]
    /\ lastSet = [k \in Keys |-> NoEntry]
    /\ fault = "none"
    /\ canon = NoCanon
    /\ kv = NoOp
    /\ stream = NoStream
    /\ \E groups \in TypePolicies, path \in MatchPaths :
          decision = Decision("asked", groups, <<"B">>, path, {}, FALSE)

SpecTypes == InitTypes /\ [][NextMatch]_vars

\* the positions pos at which the loop of wildcard_match takes path[pos..],
\* over parts[i..]
RECURSIVE SlicePositions(_, _, _, _, _)
SlicePositions(path, parts, i, pos, exact) ==
    IF i > Len(parts) THEN {}
    ELSE IF parts[i] = <<>> THEN SlicePositions(path, parts, i + 1, pos, exact)
    ELSE IF i = 1 THEN
        IF ~starts_with(path, parts[i]) THEN {}
        ELSE SlicePositions(path, parts, i + 1, Len(parts[i]), exact)
    ELSE IF i = Len(parts) /\ exact THEN
        IF ~ends_with(path, parts[i]) THEN {}
        ELSE SlicePositions(path, parts, i + 1, pos, exact)
    ELSE
        LET rest == SubSeq(path, pos + 1, Len(path))
            found == find(rest, parts[i])
        IN  {pos} \cup (IF found = -1 THEN {}
                        ELSE SlicePositions(path, parts, i + 1,
                                            pos + found + Len(parts[i]), exact))

\* the slices path[pos..] path_matches_rfc9309 takes for one pattern
PatternSlices(path, pattern) ==
    LET exact == Len(pattern) > 0 /\ pattern[Len(pattern)] = "$"
        body == IF exact THEN SubSeq(pattern, 1, Len(pattern) - 1) ELSE pattern
        parts == split(body, "*")
    IN  IF (\E i \in DOMAIN body : body[i] = "*") /\ Len(parts) > 1
        THEN SlicePositions(path, parts, 1, 0, exact)
        ELSE {}

\* the policy without the rules whose rule_type is neither Allow nor Disallow
WithoutOtherRuleTypes(groups) ==
    [g \in DOMAIN groups |->
        [groups[g] EXCEPT
            !.rules = SelectSeq(groups[g].rules,
                                LAMBDA r : r.rule_type \in {RuleAllow, RuleDisallow})]]

Filler == [i \in 1..MAX_ROBOTS_TXT_SIZE |-> "a"]

\* the finite bodies the origins serve: none, one line, a line and a chunk
\* that crosses the cap, and the same with a byte that is not valid UTF-8 in
\* the line
LiveChunkSeqs ==
    { <<>>,
      << <<"b", "\n">> >>,
      << <<"b", "\n">>, Filler >>,
      << <<"x", "\n">>, Filler >> }

\* what the origin does when fetch reads no body to its end: the request
\* budget elapses, a 4xx, a 5xx, a chunk of a 2xx body fails
LiveBehaviours ==
    { Behaviour("timeout", 0, 0, FALSE, 1),
      Behaviour("ok", 0, 404, FALSE, 1),
      Behaviour("ok", 0, 500, FALSE, 1),
      Behaviour("ok", 0, 200, TRUE, 1) }

\* calls for valid URLs
LiveRequests ==
    { <<"GetRobots", Url(TRUE, "http", "a", -1, <<"/">>, FALSE, <<>>), <<"B">>>>,
      <<"IsAllowed", Url(TRUE, "http", "a", 80, <<"/", "x">>, TRUE, <<"q">>), <<"B">>>>,
      <<"IsAllowed", Url(TRUE, "http", "a", 8080, <<"/", "x">>, FALSE, <<>>), <<"B">>>> }

\* a call starts when no other is under way
DoLookupLive ==
    /\ \A c \in Callers : calls[c].pc = "idle"
    /\ stream.pc = "idle"
    /\ \E c \in Callers, r \in LiveRequests : Lookup(c, r[1], r[2], r[3])

\* fetch returns without having read a body to its end
DoFetchLive ==
    /\ stream.pc = "idle"
    /\ \E c \in Callers, b \in LiveBehaviours : Fetch(c, b)

\* the origin answers 2xx: fetch enters the streaming read of the body
Respond(c, chunks) ==
    /\ calls[c].pc = "fetching"
    /\ stream.pc = "idle"
    /\ stream' = Stream("reading", chunks, Len(Flatten(chunks)), 0, <<>>, 0, 0, FALSE,
                         DefaultData)
    /\ last' = IdleCall
    /\ fault' = "none"
    /\ UNCHANGED <<cache, calls, now, ticks, nfetch, nstore, win, lastObs, lastSet,
                   decision, canon, kv>>

DoRespond == \E c \in Callers, chunks \in LiveChunkSeqs : Respond(c, chunks)

\* fetch returns Ok(data) after the parse
Return(c) ==
    /\ calls[c].pc = "fetching"
    /\ stream.pc = "parsed"
    /\ nfetch' = nfetch + 1
    /\ calls' = [calls EXCEPT
                    ![c].pc = "fetched",
                    ![c].beh = Behaviour("ok", 0, 200, FALSE, 1),
                    ![c].fres = FetchResult("Ok", -1,
                                    [stream.data EXCEPT
                                        !.target_url = calls[c].target,
                                        !.robots_txt_url = calls[c].key]),
                    ![c].fid = nfetch + 1]
    /\ win' = [win EXCEPT ![calls[c].key] =
                  IF LiveWindow(calls[c].key)
                  THEN [@ EXCEPT !.contacts = @ + 1]
                  ELSE @]
    /\ stream' = NoStream
    /\ last' = IdleCall
    /\ fault' = "none"
    /\ UNCHANGED <<cache, now, ticks, nstore, lastObs, lastSet, decision, canon, kv>>

DoReturn == \E c \in Callers : Return(c)

\* String::truncate panicked: the handler unwinds, the call has neither a
\* response nor a status
Unwind(c) ==
    /\ calls[c].pc = "fetching"
    /\ stream.pc = "panicked"
    /\ calls' = [calls EXCEPT ![c].pc = "panicked"]
    /\ last' = [calls[c] EXCEPT !.pc = "panicked"]
    /\ stream' = NoStream
    /\ fault' = "none"
    /\ UNCHANGED <<cache, now, ticks, nfetch, nstore, win, lastObs, lastSet,
                   decision, canon, kv>>

NextLive ==
    DoLookupLive \/ DoFetchLive \/ DoRespond \/ Read \/ DoReturn \/ (\E c \in Callers : Unwind(c)) \/ DoStore

\* the origin answers or the request budget elapses, the finite stream
\* yields its next chunk or its end, and the handler runs on
SpecLive ==
    /\ Init
    /\ [][NextLive]_vars
    /\ WF_vars(DoFetchLive \/ DoRespond)
    /\ WF_vars(Read)
    /\ WF_vars(DoReturn)
    /\ WF_vars(\E c \in Callers : Unwind(c))
    /\ WF_vars(DoStore)

\* C39: every GetRobots or IsAllowed call for a valid URL whose fetch is
\* under way eventually returns a response or a status, provided the origin
\* answers or the request budget elapses and the body stream is finite
CallReturns ==
    \A c \in Callers : (calls[c].pc = "fetching") ~> (calls[c].pc = "idle")

====
